---- MODULE Spec2Model ----
(***************************************************************************)
(* Model of CRIPTOJAY09/boostiq-top.                                       *)
(*                                                                         *)
(* The repository holds three deployments of the same service:             *)
(*   "simple"    src/unnamed/part_000       one module-level cache         *)
(*   "nodecache" src/index.js lines 1-558   NodeCache + ExplosionDetector  *)
(*   "signals"   src/index.js lines 560-1013 one module-level cache per    *)
(*                                           endpoint, kline analysis      *)
(*                                                                         *)
(* Units.  Percentages are integers in thousandths of a percent, prices in *)
(* millionths (1e-6) of a quote unit, volumes in whole quote units, and    *)
(* score points in thousandths of a point (the momentum component is the   *)
(* raw percentage, so a score is not a whole number of points).            *)
(***************************************************************************)
EXTENDS Integers, Sequences, FiniteSets, TLC

VARIABLES
    token,      \* the ticker handed to ExplosionDetector.calculateExplosionScore
    scoreOut,   \* what calculateExplosionScore returned for it
    variant,    \* which deployment runs: "simple", "nodecache" or "signals"
    devMode,    \* process.env.NODE_ENV === 'development'
    clock,      \* Date.now(), in milliseconds
    cache,      \* per cache key: the cached payload (cache / explosionCache /
                \* regularCache / newListingsCache / NodeCache data[key].v)
    lastFetch,  \* per cache key: lastFetch / lastExplosionFetch / ...
    req,        \* per request slot: where its handler stands
    sent,       \* the response sent last, and the request it answered
    data,       \* the upstream response body handed to a pipeline
    ranked,     \* what the pipeline made of it
    series,     \* the price series handed to the indicator functions
    indicators  \* what the indicator functions returned for it

serviceVars == <<variant, devMode, clock, cache, lastFetch, req, sent>>

scoreVars == <<token, scoreOut>>

pipeVars == <<data, ranked>>

indVars == <<series, indicators>>

\* The variables of the pure functions, which the service leaves alone.
pureVars == <<scoreVars, pipeVars, indVars>>

vars == <<pureVars, serviceVars>>

\* The value of a variable a specification does not use.
Unused == <<>>

(***************************************************************************)
(* JavaScript numbers: finite values, NaN and the two infinities.          *)
(***************************************************************************)
NaN == [k |-> "nan", v |-> 0]
PosInf == [k |-> "inf", v |-> 1]
NegInf == [k |-> "inf", v |-> -1]
Fin(n) == [k |-> "fin", v |-> n]

isNaN(a) == a.k = "nan"

\* a > b as JavaScript evaluates it: false whenever either side is NaN.
JsGt(a, b) ==
    /\ a.k # "nan"
    /\ b.k # "nan"
    /\ CASE a.k = "fin" /\ b.k = "fin" -> a.v > b.v
         [] a.k = "inf" /\ b.k = "fin" -> a.v > 0
         [] a.k = "fin" /\ b.k = "inf" -> b.v < 0
         [] OTHER -> a.v > b.v

JsLt(a, b) == JsGt(b, a)

(***************************************************************************)
(* Raw JSON field values and parseFloat.  A field is a decimal string      *)
(* ("num"), a decimal prefix followed by other characters ("junk", e.g.    *)
(* "12abc"), a string with no numeric prefix ("text"), the strings         *)
(* "Infinity" / "-Infinity" ("inf" / "ninf"), null, or absent ("undef").   *)
(***************************************************************************)
RawNum(n) == [t |-> "num", n |-> n]
RawJunk(n) == [t |-> "junk", n |-> n]
RawText == [t |-> "text", n |-> 0]
RawInf == [t |-> "inf", n |-> 0]
RawNegInf == [t |-> "ninf", n |-> 0]
RawNull == [t |-> "null", n |-> 0]
RawUndef == [t |-> "undef", n |-> 0]

parseFloat(raw) ==
    CASE raw.t = "num" -> Fin(raw.n)
      [] raw.t = "junk" -> Fin(raw.n)
      [] raw.t = "inf" -> PosInf
      [] raw.t = "ninf" -> NegInf
      [] OTHER -> NaN

(***************************************************************************)
(* ExplosionDetector.calculateExplosionScore (nodecache deployment).       *)
(* Each component is returned in thousandths of a point.                   *)
(***************************************************************************)
\* src/index.js 143-150: the staircase on priceChangePercent, then
\* analysis.priceScore = Math.min(30, Math.max(0, score)).
priceGainGe(priceChange) ==
    CASE JsGt(priceChange, Fin(20000)) \/ priceChange = Fin(20000) -> 30000
      [] JsGt(priceChange, Fin(15000)) \/ priceChange = Fin(15000) -> 25000
      [] JsGt(priceChange, Fin(10000)) \/ priceChange = Fin(10000) -> 20000
      [] JsGt(priceChange, Fin(5000)) \/ priceChange = Fin(5000) -> 15000
      [] JsGt(priceChange, Fin(0)) \/ priceChange = Fin(0) -> 10000
      [] OTHER -> 0

priceGainScore(priceChange) ==
    CASE JsGt(priceChange, Fin(20000)) -> 30000
      [] JsGt(priceChange, Fin(15000)) -> 25000
      [] JsGt(priceChange, Fin(10000)) -> 20000
      [] JsGt(priceChange, Fin(5000)) -> 15000
      [] JsGt(priceChange, Fin(0)) -> 10000
      [] OTHER -> 0

\* src/index.js 153-159
volumeScore(volume) ==
    CASE JsGt(volume, Fin(50000000)) -> 25000
      [] JsGt(volume, Fin(20000000)) -> 20000
      [] JsGt(volume, Fin(10000000)) -> 15000
      [] JsGt(volume, Fin(5000000)) -> 10000
      [] JsGt(volume, Fin(1000000)) -> 5000
      [] OTHER -> 0

\* Math.min(20, priceChange) for a priceChange that is not NaN.
MathMin20(priceChange) ==
    IF priceChange.k = "inf"
    THEN (IF priceChange.v > 0 THEN 20000 ELSE 0 - 2000000000)
    ELSE (IF priceChange.v < 20000 THEN priceChange.v ELSE 20000)

\* The guard priceChange > 0 dropped: a negative percentage is added as is.
momentumUnguarded(priceChange) ==
    IF isNaN(priceChange) THEN 0 ELSE MathMin20(priceChange)

\* src/index.js 166: priceChange > 0 ? Math.min(20, priceChange) : 0
momentumScore(priceChange) ==
    IF JsGt(priceChange, Fin(0)) THEN MathMin20(priceChange) ELSE 0

\* src/index.js 171-174 (0.001 = 1000, 0.0001 = 100, 0.00001 = 10 millionths)
priceAccessibility(price) ==
    CASE JsGt(price, Fin(1000)) /\ JsLt(price, Fin(10000000)) -> 15000
      [] JsGt(price, Fin(100)) /\ JsLt(price, Fin(50000000)) -> 10000
      [] JsGt(price, Fin(10)) /\ JsLt(price, Fin(100000000)) -> 5000
      [] OTHER -> 0

\* src/index.js 180
volatilityBonus(priceChange) ==
    IF JsGt(priceChange, Fin(0)) /\ JsLt(priceChange, Fin(100000)) THEN 10000 ELSE 0

Min(a, b) == IF a < b THEN a ELSE b
Max(a, b) == IF a > b THEN a ELSE b

\* JavaScript null, where the code stores it in place of a number.
JsNull == [k |-> "null", v |-> 0]

\* A decimal string with eight decimals: sign, whole part and the eight
\* decimals as a number below 10^8.
Fixed8(neg, whole, frac) == [t |-> "fixed8", neg |-> neg, whole |-> whole, frac |-> frac]

\* (price * factor).toFixed(8) for a factor written in hundredths (1.25 is
\* 125).  A price has six decimals, so the product has eight and prints
\* without rounding; a price that is not finite prints as "NaN",
\* "Infinity" or "-Infinity".  The product is formed from the whole units
\* and the millionths of the price separately to stay within 32 bits.
timesToFixed8(price, factor) ==
    CASE price.k = "fin" ->
            LET a == IF price.v < 0 THEN 0 - price.v ELSE price.v
                q == a \div 1000000
                r == a % 1000000
                low == (((q * factor) % 100) * 1000000) + (r * factor)
            IN  Fixed8(price.v < 0, ((q * factor) \div 100) + (low \div 100000000),
                       low % 100000000)
      [] price.k = "nan" -> RawText
      [] price.v > 0 -> RawInf
      [] OTHER -> RawNegInf

Advice(action, buyPrice, sellTarget, stopLoss) ==
    [action |-> action, buyPrice |-> buyPrice,
     sellTarget |-> sellTarget, stopLoss |-> stopLoss]

\* The same ladder with strict comparisons.
getRecommendationStrict(score, tok) ==
    LET price == parseFloat(tok.lastPrice)
    IN  IF score > 80000 THEN
            Advice("COMPRA FUERTE", price, timesToFixed8(price, 125),
                   timesToFixed8(price, 85))
        ELSE IF score > 60000 THEN
            Advice("COMPRA MODERADA", price, timesToFixed8(price, 115),
                   timesToFixed8(price, 90))
        ELSE IF score > 40000 THEN
            Advice("OBSERVAR", price, timesToFixed8(price, 110),
                   timesToFixed8(price, 95))
        ELSE Advice("EVITAR", JsNull, RawNull, RawNull)

\* src/index.js 191-236.  confidence, risk and timeframe are constants of
\* the tier and are left to `action`.
getRecommendation(score, tok) ==
    LET price == parseFloat(tok.lastPrice)
    IN  IF score >= 80000 THEN
            Advice("COMPRA FUERTE", price, timesToFixed8(price, 125),
                   timesToFixed8(price, 85))
        ELSE IF score >= 60000 THEN
            Advice("COMPRA MODERADA", price, timesToFixed8(price, 115),
                   timesToFixed8(price, 90))
        ELSE IF score >= 40000 THEN
            Advice("OBSERVAR", price, timesToFixed8(price, 110),
                   timesToFixed8(price, 95))
        ELSE Advice("EVITAR", JsNull, RawNull, RawNull)

\* src/index.js 138-189.  `score` is the sum the function has accumulated
\* when it returns; priceScore is computed from the sum after its first step.
\* getRecommendation receives the sum itself, not the clamped totalScore.
calculateExplosionScore(tok) ==
    LET priceChange == parseFloat(tok.priceChangePercent)
        volume == parseFloat(tok.quoteVolume)
        price == parseFloat(tok.lastPrice)
        priceScore == Min(30000, Max(0, priceGainScore(priceChange)))
        score == priceGainScore(priceChange) + volumeScore(volume)
                 + momentumScore(priceChange) + priceAccessibility(price)
                 + volatilityBonus(priceChange)
    IN  [done |-> TRUE,
         totalScore |-> Min(100000, score),
         breakdown |-> [priceScore |-> priceScore,
                        volumeScore |-> volumeScore(volume),
                        momentumScore |-> momentumScore(priceChange),
                        priceAccessibility |-> priceAccessibility(price),
                        volatilityBonus |-> volatilityBonus(priceChange)],
         recommendation |-> getRecommendation(score, tok)]

NoScore ==
    [done |-> FALSE,
     totalScore |-> 0,
     breakdown |-> [priceScore |-> 0, volumeScore |-> 0, momentumScore |-> 0,
                    priceAccessibility |-> 0, volatilityBonus |-> 0],
     recommendation |-> Advice("none", JsNull, RawNull, RawNull)]

(***************************************************************************)
(* State of the service.                                                   *)
(***************************************************************************)
NumReq == 2

Req == 1 .. NumReq

Keys == {"explosion-candidates", "top-gainers", "new-listings", "smart-analysis"}

\* A cache variable: null (set = FALSE) or a result array.
NoData == [set |-> FALSE, data |-> <<>>]
Data(d) == [set |-> TRUE, data |-> d]

\* What res.json / res.status(..).json sent, and for which request.
\* by: the request slot answered (0: nothing sent yet).  cached is "true" /
\* "false" as in the body, "absent" when the body has no such field.
\* details names what the body carries beside the fixed error text:
\* "upstream-body" (error.response.data) or "error-message" (error.message).
\* up: how the request's last upstream ticker fetch ended ("none" when it
\* made none).  now: the time at which the request answered arrived.
NoResp == [by |-> 0, key |-> "none", up |-> "none", now |-> 0, status |-> 0,
           cached |-> "absent", data |-> NoData, err |-> "none",
           details |-> "none"]

\* The success body written without its cached field.
OkRespUnflagged(flag, d) == [NoResp EXCEPT !.status = 200, !.data = Data(d)]

OkResp(flag, d) == [NoResp EXCEPT !.status = 200, !.cached = flag, !.data = Data(d)]

ErrResp(code, e, det) == [NoResp EXCEPT !.status = code, !.err = e, !.details = det]

\* A request slot.  pc: "idle" (no request yet), "fetch" (awaiting the
\* ticker fetch), "done" (response sent).  now: the time of arrival (the
\* handler's `now`, where it reads one).
\* fetches: the upstream ticker fetches the request issued.
IdleReq == [pc |-> "idle", key |-> "none", now |-> 0, fetches |-> 0]

\* A request whose response has been sent: its handler keeps nothing.
DoneReq == [IdleReq EXCEPT !.pc = "done"]

(***************************************************************************)
(* Inputs of the scoring specification: every field ranges over values on  *)
(* both sides of each threshold the scorer tests, the special values, and  *)
(* magnitudes far outside the thresholds.                                  *)
(***************************************************************************)
PctInputs ==
    {RawText, RawUndef, RawInf, RawNegInf, RawJunk(21500)} \cup
    {RawNum(n) : n \in {0 - 999999000, 0 - 5000, 0 - 1, 0, 1, 4999, 5000, 5001,
                        10000, 10001, 15000, 15001, 19999, 20000, 20001, 22000,
                        99999, 100000, 100001, 999999000}}

VolumeInputs ==
    {RawText, RawNull, RawInf} \cup
    {RawNum(n) : n \in {0 - 5, 0, 1000000, 1000001, 5000000, 5000001, 10000000,
                        10000001, 20000000, 20000001, 50000000, 50000001,
                        60000000}}

PriceInputs ==
    {RawText, RawInf} \cup
    {RawNum(n) : n \in {0 - 5, 0, 10, 11, 100, 101, 1000, 1001, 2000000, 9999999,
                        10000000, 49999999, 50000000, 99999999, 100000000}}

ScoreTokens ==
    [priceChangePercent : PctInputs, quoteVolume : VolumeInputs, lastPrice : PriceInputs]

ScoreInit ==
    /\ token \in ScoreTokens
    /\ scoreOut = NoScore
    /\ data = Unused
    /\ ranked = Unused
    /\ series = Unused
    /\ indicators = Unused
    /\ variant = "nodecache"
    /\ devMode = FALSE
    /\ clock = 0
    /\ cache = [k \in Keys |-> NoData]
    /\ lastFetch = [k \in Keys |-> 0]
    /\ req = [r \in Req |-> IdleReq]
    /\ sent = NoResp

\* One call of calculateExplosionScore on the current ticker.
ScoreToken ==
    /\ ~scoreOut.done
    /\ scoreOut' = calculateExplosionScore(token)
    /\ UNCHANGED <<token, pipeVars, indVars, serviceVars>>

\* The caller moves on to the next ticker of the collection: a ticker that
\* differs from the current one in one field.
NextToken ==
    /\ scoreOut.done
    /\ \/ \E x \in PctInputs : token' = [token EXCEPT !.priceChangePercent = x]
       \/ \E x \in VolumeInputs : token' = [token EXCEPT !.quoteVolume = x]
       \/ \E x \in PriceInputs : token' = [token EXCEPT !.lastPrice = x]
    /\ scoreOut' = NoScore
    /\ UNCHANGED <<pipeVars, indVars, serviceVars>>

ScoreNext == ScoreToken \/ NextToken

SpecScore == ScoreInit /\ [][ScoreNext]_vars

(***************************************************************************)
(* C9.  For every ticker, whatever the magnitude or sign of                *)
(* priceChangePercent, quoteVolume and lastPrice, and also when they do    *)
(* not parse to a number, the totalScore calculateExplosionScore returns   *)
(* lies between 0 and 100 points (0 and 100000 thousandths).               *)
(***************************************************************************)
C9_ScoreInRange ==
    scoreOut.done => (0 <= scoreOut.totalScore /\ scoreOut.totalScore <= 100000)

\* A scored ticker with an extreme negative percentage, a volume that does
\* not parse and an infinite price.
C9_Witness ==
    /\ scoreOut.done
    /\ token.priceChangePercent = RawNum(0 - 999999000)
    /\ token.quoteVolume = RawText
    /\ token.lastPrice = RawInf

(***************************************************************************)
(* C10.  totalScore = min(100, priceGain + volume + momentum +             *)
(* accessibility + volatilityBonus) with the five components as the spec   *)
(* states them, and the returned breakdown holds exactly these five.       *)
(* The components below are written from the claim; a field that does not  *)
(* parse to a number falls into every "else 0".                            *)
(***************************************************************************)
C10_Above(x, n) == x.k # "nan" /\ (IF x.k = "inf" THEN x.v > 0 ELSE x.v > n)
C10_Below(x, n) == x.k # "nan" /\ (IF x.k = "inf" THEN x.v < 0 ELSE x.v < n)

C10_PriceGain(p) ==
    IF C10_Above(p, 20000) THEN 30000
    ELSE IF C10_Above(p, 15000) THEN 25000
    ELSE IF C10_Above(p, 10000) THEN 20000
    ELSE IF C10_Above(p, 5000) THEN 15000
    ELSE IF C10_Above(p, 0) THEN 10000
    ELSE 0

C10_Volume(q) ==
    IF C10_Above(q, 50000000) THEN 25000
    ELSE IF C10_Above(q, 20000000) THEN 20000
    ELSE IF C10_Above(q, 10000000) THEN 15000
    ELSE IF C10_Above(q, 5000000) THEN 10000
    ELSE IF C10_Above(q, 1000000) THEN 5000
    ELSE 0

\* min(20, max(0, p))
C10_Momentum(p) ==
    IF ~C10_Above(p, 0) THEN 0
    ELSE IF C10_Above(p, 20000) THEN 20000
    ELSE p.v

C10_Accessibility(l) ==
    IF C10_Above(l, 1000) /\ C10_Below(l, 10000000) THEN 15000
    ELSE IF C10_Above(l, 100) /\ C10_Below(l, 50000000) THEN 10000
    ELSE IF C10_Above(l, 10) /\ C10_Below(l, 100000000) THEN 5000
    ELSE 0

C10_Volatility(p) == IF C10_Above(p, 0) /\ C10_Below(p, 100000) THEN 10000 ELSE 0

C10_ScoreFormula ==
    scoreOut.done =>
        LET p == parseFloat(token.priceChangePercent)
            q == parseFloat(token.quoteVolume)
            l == parseFloat(token.lastPrice)
            sum == C10_PriceGain(p) + C10_Volume(q) + C10_Momentum(p)
                   + C10_Accessibility(l) + C10_Volatility(p)
        IN  /\ scoreOut.totalScore = (IF sum < 100000 THEN sum ELSE 100000)
            /\ scoreOut.breakdown.priceScore = C10_PriceGain(p)
            /\ scoreOut.breakdown.volumeScore = C10_Volume(q)
            /\ scoreOut.breakdown.momentumScore = C10_Momentum(p)
            /\ scoreOut.breakdown.priceAccessibility = C10_Accessibility(l)
            /\ scoreOut.breakdown.volatilityBonus = C10_Volatility(p)

\* The spec's example ticker: lastPrice 2.0, priceChangePercent 22,
\* quoteVolume 60000000, scored 30 + 25 + 20 + 15 + 10 = 100.
C10_Witness ==
    /\ scoreOut.done
    /\ token.priceChangePercent = RawNum(22000)
    /\ token.quoteVolume = RawNum(60000000)
    /\ token.lastPrice = RawNum(2000000)
    /\ scoreOut.totalScore = 100000
    /\ scoreOut.breakdown.momentumScore = 20000

(***************************************************************************)
(* Upstream ticker records.  An element of the upstream array is an object *)
(* ("object"), null or a non-object such as a string.  A symbol is a       *)
(* string (base followed by quote, e.g. "BTC" "USDT"), a number, null or   *)
(* absent.                                                                 *)
(***************************************************************************)
Sym(base, quote) == [t |-> "str", base |-> base, quote |-> quote]
SymNum == [t |-> "num", base |-> "", quote |-> ""]
SymNull == [t |-> "null", base |-> "", quote |-> ""]
SymUndef == [t |-> "undef", base |-> "", quote |-> ""]

Ticker(sym, price, pct, vol) ==
    [kind |-> "object", symbol |-> sym, lastPrice |-> price,
     priceChangePercent |-> pct, quoteVolume |-> vol,
     priceChange |-> RawNum(0), count |-> RawNum(1000)]

NullItem == [Ticker(SymUndef, RawUndef, RawUndef, RawUndef) EXCEPT !.kind = "null"]

\* field !== undefined && field !== null
Present(raw) == raw.t \notin {"undef", "null"}

\* Number.prototype.toFixed for a value the model represents exactly
\* (prices to 8 decimals, volumes to 2): the decimal string of the number.
toFixedExact(x) ==
    CASE x.k = "fin" -> RawNum(x.v)
      [] x.k = "nan" -> RawText
      [] x.v > 0 -> RawInf
      [] OTHER -> RawNegInf

\* percentChange.toFixed(2): thousandths rounded to the nearest hundredth.
toFixed2(x) ==
    CASE x.k = "fin" ->
            IF x.v >= 0 THEN RawNum(((x.v + 5) \div 10) * 10)
            ELSE RawNum(0 - ((((0 - x.v) + 5) \div 10) * 10))
      [] x.k = "nan" -> RawText
      [] x.v > 0 -> RawInf
      [] OTHER -> RawNegInf

(***************************************************************************)
(* Array.prototype.sort with a comparator of the shape key(b) - key(a),    *)
(* optionally preceded by a first key: a stable sort, descending by k1,    *)
(* then descending by k2.  The elements are records with fields k1, k2     *)
(* (JavaScript numbers, never NaN where the code sorts) and rec.           *)
(***************************************************************************)
\* The comparator puts x strictly before e.
Precedes(x, e) ==
    \/ JsGt(x.k1, e.k1)
    \/ (~JsGt(e.k1, x.k1) /\ JsGt(x.k2, e.k2))

\* x inserted behind every element it does not strictly precede.
InsertDesc(sorted, x) ==
    LET before == {i \in 1 .. Len(sorted) : Precedes(x, sorted[i])}
        pos == IF before = {} THEN Len(sorted) + 1
               ELSE CHOOSE i \in before : \A j \in before : i <= j
    IN  SubSeq(sorted, 1, pos - 1) \o <<x>> \o SubSeq(sorted, pos, Len(sorted))

RECURSIVE SortDesc(_)
SortDesc(s) ==
    IF s = <<>> THEN <<>>
    ELSE InsertDesc(SortDesc(SubSeq(s, 1, Len(s) - 1)), s[Len(s)])

\* s.sort((a, b) => key(b) - key(a)): the elements of s in the order of the
\* stable sort on their keys, keys[i] being the key of s[i].
SortedBy(keys, s) ==
    LET keyed == [i \in 1 .. Len(s) |-> [k1 |-> keys[i], k2 |-> Fin(0), rec |-> s[i]]]
        Recs(sorted) == [i \in 1 .. Len(sorted) |-> sorted[i].rec]
    IN  Recs(SortDesc(keyed))

\* .slice(0, n)
Slice(s, n) == SubSeq(s, 1, Min(n, Len(s)))

(***************************************************************************)
(* Arrays as JavaScript shares them.  A chain follows one array through    *)
(* the method calls made on it: input is the array the chain started from  *)
(* as it stands now, current the array the last call returned, origin[i]   *)
(* the position in input of the object that current[i] is (0 for an object *)
(* the chain created), sameArray whether current is the input array        *)
(* itself.                                                                 *)
(***************************************************************************)
ArrayChain(items) ==
    [input |-> items, current |-> items,
     origin |-> [i \in 1 .. Len(items) |-> i], sameArray |-> TRUE]

\* .filter(...): a new array holding the elements that keep marks, which
\* are the same objects
ArrayFilter(c, keep) ==
    LET Kept(i) == keep[i]
        At(idx) == [c EXCEPT !.current = [j \in 1 .. Len(idx) |-> c.current[idx[j]]],
                             !.origin = [j \in 1 .. Len(idx) |-> c.origin[idx[j]]],
                             !.sameArray = FALSE]
    IN  At(SelectSeq([i \in 1 .. Len(c.current) |-> i], Kept))

\* .slice(0, n): a new array of the same objects
ArraySlice(c, n) ==
    [c EXCEPT !.current = Slice(c.current, n), !.origin = Slice(c.origin, n),
              !.sameArray = FALSE]

\* .map(...) taken to return the objects it was given.
ArrayMapSameObjects(c, recs) ==
    [c EXCEPT !.current = recs, !.sameArray = FALSE]

\* .map(...) with a callback that returns an object literal: a new array of
\* new objects
ArrayMap(c, recs) ==
    [c EXCEPT !.current = recs, !.origin = [i \in 1 .. Len(recs) |-> 0],
              !.sameArray = FALSE]

\* element.field = values[i] for every element of current: a write to the
\* element object, seen through every array that holds it
AssignField(c, field, values) ==
    LET Written(j) == {i \in 1 .. Len(c.current) : c.origin[i] = j}
        Value(j) == values[CHOOSE i \in Written(j) : TRUE]
    IN  [c EXCEPT !.current = [i \in 1 .. Len(c.current) |->
                                 [c.current[i] EXCEPT ![field] = values[i]]],
                  !.input = [j \in 1 .. Len(c.input) |->
                               IF Written(j) = {} THEN c.input[j]
                               ELSE (field :> Value(j)) @@ c.input[j]]]

\* .sort(...) on the keys keys1, then keys2: sorts current in place
ArraySort(c, keys1, keys2) ==
    LET keyed == [i \in 1 .. Len(c.current) |->
                    [k1 |-> keys1[i], k2 |-> keys2[i], rec |-> i]]
        Permuted(s, p) == [j \in 1 .. Len(p) |-> s[p[j].rec]]
        At(p) == [c EXCEPT !.current = Permuted(c.current, p),
                           !.origin = Permuted(c.origin, p),
                           !.input = IF c.sameArray THEN Permuted(c.current, p)
                                     ELSE c.input]
    IN  At(SortDesc(keyed))

(***************************************************************************)
(* The "simple" deployment: src/unnamed/part_000.                          *)
(***************************************************************************)
Simple_MIN_VOLUME == 50000
Simple_MIN_GAIN_PERCENT == 5
Simple_TOP_COUNT == 10
Simple_CACHE_DURATION == 60000

\* part_000 45-50
validateBinanceData(item) ==
    /\ item.kind = "object"
    /\ item.symbol.t \notin {"undef", "null"}
    /\ Present(item.lastPrice)
    /\ Present(item.priceChangePercent)
    /\ Present(item.quoteVolume)

\* item.symbol?.endsWith("USDT") for a symbol that is a string, null or absent
endsWithUSDT(sym) == sym.t = "str" /\ sym.quote = "USDT"

\* item.symbol?.endsWith is not a function: a symbol that is neither a string
\* nor null/undefined makes the filter callback throw a TypeError.
endsWithThrows(sym) == sym.t = "num"

\* part_000 53-84.  threw: the function threw (not an array, or a TypeError).
processGainersData(body) ==
    IF ~body.isArray THEN [threw |-> TRUE, out |-> <<>>]
    ELSE
    LET valid == SelectSeq(body.items, validateBinanceData)
        IsUsdt(item) == endsWithUSDT(item.symbol)
        usdt == SelectSeq(valid, IsUsdt)
        VolOk(item) ==
            LET volume == parseFloat(item.quoteVolume)
            IN  ~isNaN(volume) /\ JsGt(volume, Fin(Simple_MIN_VOLUME))
        liquid == SelectSeq(usdt, VolOk)
        mapped == [i \in 1 .. Len(liquid) |->
                    [symbol |-> liquid[i].symbol,
                     price |-> toFixedExact(parseFloat(liquid[i].lastPrice)),
                     percentChange |-> toFixed2(parseFloat(liquid[i].priceChangePercent)),
                     volume |-> toFixedExact(parseFloat(liquid[i].quoteVolume)),
                     priceChange |-> toFixedExact(parseFloat(liquid[i].priceChange))]]
        GainOk(g) ==
            LET percentChange == parseFloat(g.percentChange)
            IN  ~isNaN(percentChange)
                /\ JsGt(percentChange, Fin(Simple_MIN_GAIN_PERCENT * 1000))
        gainers == SelectSeq(mapped, GainOk)
        keyed == [i \in 1 .. Len(gainers) |->
                    [k1 |-> parseFloat(gainers[i].percentChange), k2 |-> Fin(0),
                     rec |-> gainers[i]]]
        sorted == SortDesc(keyed)
        out == [i \in 1 .. Len(sorted) |-> sorted[i].rec]
    IN  IF \E i \in 1 .. Len(valid) : endsWithThrows(valid[i].symbol)
        THEN [threw |-> TRUE, out |-> <<>>]
        ELSE [threw |-> FALSE, out |-> Slice(out, Simple_TOP_COUNT)]

(***************************************************************************)
(* The "signals" deployment: src/index.js 560-1013.                        *)
(* Indicator values are kept as exact fractions n / d (d > 0), NaN or an   *)
(* infinity; kline close prices are positive integers (millionths).        *)
(***************************************************************************)
Signals_MIN_VOLUME_EXPLOSION == 100000
Signals_MIN_VOLUME_REGULAR == 50000
Signals_MIN_GAIN_EXPLOSION == 8
Signals_MIN_GAIN_REGULAR == 5
Signals_TOP_COUNT == 5
Signals_CACHE_DURATION == 30000

Rat(n, d) == [k |-> "fin", n |-> n, d |-> d]
RatNaN == [k |-> "nan", n |-> 0, d |-> 1]
RatInf(sign) == [k |-> "inf", n |-> sign, d |-> 1]

\* a > c, a >= c, a <= c for a fraction a and an integer c, as JavaScript
\* compares numbers (false for NaN).
RatGt(a, c) == a.k # "nan" /\ (IF a.k = "inf" THEN a.n > 0 ELSE a.n > c * a.d)
RatGe(a, c) == a.k # "nan" /\ (IF a.k = "inf" THEN a.n > 0 ELSE a.n >= c * a.d)
RatLe(a, c) == a.k # "nan" /\ (IF a.k = "inf" THEN a.n < 0 ELSE a.n <= c * a.d)

RECURSIVE SumSeq(_)
SumSeq(s) == IF s = <<>> THEN 0 ELSE s[1] + SumSeq(Tail(s))

\* s.slice(-n)
LastN(s, n) == SubSeq(s, Max(1, Len(s) - n + 1), Len(s))

\* s.slice(-10, -5)
SliceM10M5(s) == SubSeq(s, Max(1, Len(s) - 9), Len(s) - 5)

\* index.js 602-626.  100 - 100 / (1 + avgGain / avgLoss) = 100 G / (G + L)
\* for the sums G, L of the last 14 gains and losses.
calculateSimpleRSI(prices) ==
    IF Len(prices) < 14 THEN Rat(50, 1)
    ELSE
    LET change(i) == prices[i + 1] - prices[i]
        gains == [i \in 1 .. Len(prices) - 1 |-> IF change(i) > 0 THEN change(i) ELSE 0]
        losses == [i \in 1 .. Len(prices) - 1 |-> IF change(i) > 0 THEN 0 ELSE 0 - change(i)]
        G == SumSeq(LastN(gains, 14))
        L == SumSeq(LastN(losses, 14))
    IN  IF L = 0 THEN Rat(100, 1) ELSE Rat(100 * G, G + L)

\* index.js 629-639.  recentAvg = R / 5, olderAvg = O / m (0 / 0 = NaN when
\* fewer than 6 prices leave `older` empty).
calculateMomentum(prices) ==
    IF Len(prices) < 5 THEN Rat(0, 1)
    ELSE
    LET recent == LastN(prices, 5)
        older == SliceM10M5(prices)
        R == SumSeq(recent)
        O == SumSeq(older)
        m == Len(older)
    IN  IF m = 0 THEN RatNaN
        ELSE IF O = 0
             THEN (IF R = 0 THEN RatNaN ELSE RatInf(IF R > 0 THEN 1 ELSE 0 - 1))
        ELSE IF O > 0 THEN Rat((R * m - 5 * O) * 100, 5 * O)
        ELSE Rat(0 - ((R * m - 5 * O) * 100), 0 - (5 * O))

\* The average of the filtered tokens' parsed quoteVolume (index.js 710-711)
\* as a fraction; every such volume is a number above minVolume, possibly
\* Infinity.
averageVolume(tokens) ==
    IF tokens = <<>> THEN RatNaN
    ELSE IF \E i \in 1 .. Len(tokens) : parseFloat(tokens[i].quoteVolume).k = "inf"
    THEN RatInf(1)
    ELSE Rat(SumSeq([i \in 1 .. Len(tokens) |-> parseFloat(tokens[i].quoteVolume).v]),
             Len(tokens))

\* index.js 642-644: currentVolume > avgVolume * 2
Signals_detectVolumeSpike(currentVolume, avgVolume) ==
    /\ currentVolume.k # "nan"
    /\ avgVolume.k # "nan"
    /\ CASE avgVolume.k = "inf" -> FALSE
         [] currentVolume.k = "inf" -> currentVolume.v > 0
         [] OTHER -> currentVolume.v * avgVolume.d > 2 * avgVolume.n

\* calculateTokenScore with the cap Math.min(score, 9).
calculateTokenScoreCapped9(tok, avgVolume) ==
    LET gainPercent == parseFloat(tok.percentChange)
        gainPts == IF JsGt(gainPercent, Fin(15000)) \/ gainPercent = Fin(15000) THEN 3
                   ELSE IF JsGt(gainPercent, Fin(10000)) \/ gainPercent = Fin(10000) THEN 2
                   ELSE IF JsGt(gainPercent, Fin(5000)) \/ gainPercent = Fin(5000) THEN 1
                   ELSE 0
        volume == parseFloat(tok.volume)
        volPts == IF JsGt(volume, Fin(500000)) \/ volume = Fin(500000) THEN 2
                  ELSE IF JsGt(volume, Fin(200000)) \/ volume = Fin(200000) THEN 1
                  ELSE 0
        spikePts == IF RatGt(avgVolume, 0) /\ Signals_detectVolumeSpike(volume, avgVolume)
                    THEN 2 ELSE 0
        momPts == IF RatGt(tok.momentum, 5) THEN 2
                  ELSE IF RatGt(tok.momentum, 0) THEN 1
                  ELSE 0
        rsiPts == IF RatGe(tok.rsi, 30) /\ RatLe(tok.rsi, 70) THEN 1 ELSE 0
    IN  Min(gainPts + volPts + spikePts + momPts + rsiPts, 9)

\* index.js 647-674
calculateTokenScore(tok, avgVolume) ==
    LET gainPercent == parseFloat(tok.percentChange)
        gainPts == IF JsGt(gainPercent, Fin(15000)) \/ gainPercent = Fin(15000) THEN 3
                   ELSE IF JsGt(gainPercent, Fin(10000)) \/ gainPercent = Fin(10000) THEN 2
                   ELSE IF JsGt(gainPercent, Fin(5000)) \/ gainPercent = Fin(5000) THEN 1
                   ELSE 0
        volume == parseFloat(tok.volume)
        volPts == IF JsGt(volume, Fin(500000)) \/ volume = Fin(500000) THEN 2
                  ELSE IF JsGt(volume, Fin(200000)) \/ volume = Fin(200000) THEN 1
                  ELSE 0
        spikePts == IF RatGt(avgVolume, 0) /\ Signals_detectVolumeSpike(volume, avgVolume)
                    THEN 2 ELSE 0
        momPts == IF RatGt(tok.momentum, 5) THEN 2
                  ELSE IF RatGt(tok.momentum, 0) THEN 1
                  ELSE 0
        rsiPts == IF RatGe(tok.rsi, 30) /\ RatLe(tok.rsi, 70) THEN 1 ELSE 0
    IN  Min(gainPts + volPts + spikePts + momPts + rsiPts, 10)

\* What getKlineData (index.js 677-689) can return for a symbol: [] when the
\* fetch fails, else the close prices.
KlineRising == [i \in 1 .. 15 |-> 1000000 + 20000 * i]

KlineSeries == {<<>>, KlineRising}

\* index.js 698-707: the initial filter.  minGain is in percent.
SignalsFilter(items, minVolume, minGain) ==
    LET IsObject(item) == item.kind = "object"
        HasFields(item) ==
            /\ item.symbol.t \notin {"undef", "null"}
            /\ Present(item.lastPrice)
            /\ Present(item.priceChangePercent)
            /\ Present(item.quoteVolume)
        IsUsdt(item) == endsWithUSDT(item.symbol)
        Passes(item) ==
            LET volume == parseFloat(item.quoteVolume)
                gain == parseFloat(item.priceChangePercent)
            IN  /\ ~isNaN(volume)
                /\ JsGt(volume, Fin(minVolume))
                /\ ~isNaN(gain)
                /\ JsGt(gain, Fin(minGain * 1000))
    IN  SelectSeq(SelectSeq(SelectSeq(SelectSeq(items, IsObject), HasFields), IsUsdt),
                  Passes)

\* The filter's endsWith callback throws on a symbol that is not a string.
SignalsFilterThrows(items) ==
    \E i \in 1 .. Len(items) :
        /\ items[i].kind = "object"
        /\ Present(items[i].lastPrice)
        /\ Present(items[i].priceChangePercent)
        /\ Present(items[i].quoteVolume)
        /\ endsWithThrows(items[i].symbol)

\* index.js 698-707 for one element: the filters keep it
SignalsKeeps(item, minVolume, minGain) ==
    Len(SignalsFilter(<<item>>, minVolume, minGain)) = 1

\* index.js 719-729: the object built for a filtered token
ProcessedToken(item, prices, avgVolume) ==
    [symbol |-> item.symbol,
     price |-> toFixedExact(parseFloat(item.lastPrice)),
     percentChange |-> toFixed2(parseFloat(item.priceChangePercent)),
     volume |-> toFixedExact(parseFloat(item.quoteVolume)),
     priceChange |-> toFixedExact(parseFloat(item.priceChange)),
     rsi |-> calculateSimpleRSI(prices),
     momentum |-> calculateMomentum(prices),
     volumeSpike |-> Signals_detectVolumeSpike(parseFloat(item.quoteVolume), avgVolume),
     score |-> 0]

\* index.js 698-741 on an array whose filters do not throw: the calls made
\* on data and on the arrays derived from it.  klines[i] is what
\* getKlineData returned for the i-th of the first 50 filtered tokens.
processTokensChain(items, minVolume, minGain, klines) ==
    LET filtered(c) ==
            ArrayFilter(c, [i \in 1 .. Len(c.current) |->
                              SignalsKeeps(c.current[i], minVolume, minGain)])
        built(c, avgVolume) ==
            ArrayMap(c, [i \in 1 .. Len(c.current) |->
                           ProcessedToken(c.current[i], klines[i], avgVolume)])
        scored(c, avgVolume) ==
            AssignField(c, "score", [i \in 1 .. Len(c.current) |->
                                       calculateTokenScore(c.current[i], avgVolume)])
        sorted(c) ==
            ArraySort(c, [i \in 1 .. Len(c.current) |-> Fin(c.current[i].score)],
                         [i \in 1 .. Len(c.current) |->
                            parseFloat(c.current[i].percentChange)])
        processed(filteredTokens, avgVolume) ==
            scored(built(ArraySlice(filteredTokens, 50), avgVolume), avgVolume)
        averaged(filteredTokens) ==
            processed(filteredTokens, averageVolume(filteredTokens.current))
    IN  ArraySlice(sorted(averaged(filtered(ArrayChain(items)))), Signals_TOP_COUNT)

\* index.js 692-742: what processTokensWithAnalysis returns
processTokensWithAnalysis(body, minVolume, minGain, klines) ==
    IF ~body.isArray \/ SignalsFilterThrows(body.items)
    THEN [threw |-> TRUE, out |-> <<>>]
    ELSE [threw |-> FALSE,
          out |-> processTokensChain(body.items, minVolume, minGain, klines).current]

\* index.js 692-742: the elements of data after the call
processTokensWithAnalysisInput(body, minVolume, minGain, klines) ==
    IF ~body.isArray \/ SignalsFilterThrows(body.items)
    THEN body.items
    ELSE processTokensChain(body.items, minVolume, minGain, klines).input

\* The number of getKlineData calls processTokensWithAnalysis makes.
KlineCalls(body, minVolume, minGain) ==
    IF ~body.isArray \/ SignalsFilterThrows(body.items) THEN 0
    ELSE Len(Slice(SignalsFilter(body.items, minVolume, minGain), 50))

\* index.js 745-770
detectNewListings(body) ==
    IF ~body.isArray
       \/ \E i \in 1 .. Len(body.items) :
            body.items[i].kind = "object" /\ endsWithThrows(body.items[i].symbol)
    THEN [threw |-> TRUE, out |-> <<>>]
    ELSE
    LET IsObject(item) == item.kind = "object"
        IsUsdt(item) == endsWithUSDT(item.symbol)
        Criteria(item) ==
            LET volume == parseFloat(item.quoteVolume)
                gain == parseFloat(item.priceChangePercent)
                price == parseFloat(item.lastPrice)
            IN  /\ JsLt(volume, Fin(200000))
                /\ JsGt(gain, Fin(20000))
                /\ JsGt(price, Fin(1000))
        kept == SelectSeq(SelectSeq(SelectSeq(body.items, IsObject), IsUsdt), Criteria)
        mapped == [i \in 1 .. Len(kept) |->
                    [symbol |-> kept[i].symbol,
                     price |-> toFixedExact(parseFloat(kept[i].lastPrice)),
                     percentChange |-> toFixed2(parseFloat(kept[i].priceChangePercent)),
                     volume |-> toFixedExact(parseFloat(kept[i].quoteVolume))]]
        keyed == [i \in 1 .. Len(mapped) |->
                    [k1 |-> parseFloat(mapped[i].percentChange), k2 |-> Fin(0),
                     rec |-> mapped[i]]]
        sorted == SortDesc(keyed)
        out == [i \in 1 .. Len(sorted) |-> sorted[i].rec]
    IN  [threw |-> FALSE, out |-> Slice(out, Signals_TOP_COUNT)]

(***************************************************************************)
(* What the upstream ticker fetch can deliver.                             *)
(***************************************************************************)
\* 22 %, 60M volume, price 2.0
TickerA == Ticker(Sym("AAA", "USDT"), RawNum(2000000), RawNum(22000), RawNum(60000000))
\* 9 %, 80000 volume (above the regular minimum volume only), price 0.5
TickerB == Ticker(Sym("BBB", "USDT"), RawNum(500000), RawNum(9000), RawNum(80000))
\* 3 %: below every minimum gain
TickerLow == Ticker(Sym("CCC", "USDT"), RawNum(1000000), RawNum(3000), RawNum(70000000))
\* not a USDT pair
TickerBtc == Ticker(Sym("AAA", "BTC"), RawNum(30), RawNum(30000), RawNum(90000000))
\* quoteVolume absent
TickerNoVol == Ticker(Sym("DDD", "USDT"), RawNum(2000000), RawNum(40000), RawUndef)

ArrayBody(items) == [isArray |-> TRUE, items |-> items]

\* A response body that is not an array (e.g. {code: -1003, msg: "..."}).
NotArrayBody == [isArray |-> FALSE, items |-> <<>>]

Bodies ==
    {NotArrayBody,
     ArrayBody(<<TickerLow, TickerBtc>>),
     ArrayBody(<<TickerB, TickerNoVol, TickerA>>),
     ArrayBody(<<NullItem, TickerB>>)}

\* How an axios.get ends: a 2xx response with a body, a timeout
\* (error.code === 'ECONNABORTED'), a non-2xx response (error.response), or
\* no response at all (error.request).
Outcomes ==
    {[kind |-> "ok", body |-> b] : b \in Bodies} \cup
    {[kind |-> k, body |-> NotArrayBody] : k \in {"timeout", "status", "network"}}

\* The status of a non-2xx upstream response.
UpstreamStatus == 429

\* up: what the request remembers of the outcome.
UpOf(o) ==
    IF o.kind = "ok" THEN (IF o.body.isArray THEN "array" ELSE "notarray")
    ELSE o.kind

(***************************************************************************)
(* Time.  The clock advances in steps of the deployment's TTL, so that a   *)
(* request can find an entry at an age below, equal to and above the TTL.  *)
(***************************************************************************)
MaxTicks == 2

\* stdTTL of the node-cache instance, in seconds (index.js 9)
Node_stdTTL == 30

Ttl ==
    CASE variant = "simple" -> Simple_CACHE_DURATION
      [] variant = "signals" -> Signals_CACHE_DURATION
      [] OTHER -> Node_stdTTL * 1000

TickStep == Ttl

StartTime == 2 * TickStep

Tick ==
    /\ clock < StartTime + MaxTicks * TickStep
    /\ clock' = clock + TickStep
    /\ UNCHANGED <<pureVars, variant, devMode, cache, lastFetch, req, sent>>

\* Respond leaving the handler where it was, free to respond again.
RespondAndStay(r, o, resp) ==
    /\ UNCHANGED req
    /\ sent' = [resp EXCEPT !.by = r, !.key = req[r].key, !.up = UpOf(o),
                            !.now = req[r].now]

\* The handler of request r, whose ticker fetch ended as o, sends resp.
Respond(r, o, resp) ==
    /\ req' = [req EXCEPT ![r] = DoneReq]
    /\ sent' = [resp EXCEPT !.by = r, !.key = req[r].key, !.up = UpOf(o),
                            !.now = req[r].now]

\* Requests are interchangeable: a new request takes the lowest idle slot.
\* A slot serves one request, so NumReq bounds the requests of a run.
LowestIdle(r) == req[r].pc = "idle" /\ \A q \in Req : q < r => req[q].pc # "idle"

(***************************************************************************)
(* simple: GET /api/top-gainers (part_000 87-161)                          *)
(***************************************************************************)
\* The freshness test written with <= in place of <.
SimpleTopGainersStartInclusive(r) ==
    /\ variant = "simple"
    /\ LowestIdle(r)
    /\ LET now == clock
           k == "top-gainers"
       IN  IF cache[k].set /\ (now - lastFetch[k]) <= Simple_CACHE_DURATION
           THEN /\ req' = [req EXCEPT ![r] = DoneReq]
                /\ sent' = [OkResp("true", cache[k].data)
                              EXCEPT !.by = r, !.key = k, !.now = now]
           ELSE /\ req' = [req EXCEPT ![r] =
                           [IdleReq EXCEPT !.pc = "fetch", !.key = k, !.now = now,
                                           !.fetches = 1]]
                /\ UNCHANGED sent
    /\ UNCHANGED <<pureVars, variant, devMode, clock, cache, lastFetch>>

\* part_000 87-108: up to the await of axios.get
SimpleTopGainersStart(r) ==
    /\ variant = "simple"
    /\ LowestIdle(r)
    /\ LET now == clock
           k == "top-gainers"
       IN  IF cache[k].set /\ (now - lastFetch[k]) < Simple_CACHE_DURATION
           THEN /\ req' = [req EXCEPT ![r] = DoneReq]
                /\ sent' = [OkResp("true", cache[k].data)
                              EXCEPT !.by = r, !.key = k, !.now = now]
           ELSE /\ req' = [req EXCEPT ![r] =
                           [IdleReq EXCEPT !.pc = "fetch", !.key = k, !.now = now,
                                           !.fetches = 1]]
                /\ UNCHANGED sent
    /\ UNCHANGED <<pureVars, variant, devMode, clock, cache, lastFetch>>

\* part_000 126-160: the catch block
SimpleCatch(o, threw) ==
    CASE o.kind = "timeout" ->
            ErrResp(408, "timeout", "none")
      [] o.kind = "status" ->
            ErrResp(UpstreamStatus, "upstream-status", "upstream-body")
      [] o.kind = "network" ->
            ErrResp(503, "network", "none")
      [] OTHER ->
            ErrResp(500, "internal", IF devMode THEN "error-message" ELSE "none")

\* part_000 103-160: from the fetch's end to the response
SimpleTopGainersReturn(r) ==
    /\ variant = "simple"
    /\ req[r].pc = "fetch"
    /\ \E o \in Outcomes :
        LET k == req[r].key
            res == processGainersData(o.body)
        IN  IF o.kind = "ok" /\ ~res.threw
            THEN /\ cache' = [cache EXCEPT ![k] = Data(res.out)]
                 /\ lastFetch' = [lastFetch EXCEPT ![k] = req[r].now]
                 /\ Respond(r, o, OkResp("false", res.out))
            ELSE /\ Respond(r, o, SimpleCatch(o, res.threw))
                 /\ UNCHANGED <<cache, lastFetch>>
    /\ UNCHANGED <<pureVars, variant, devMode, clock>>

\* The cache cleared whatever NODE_ENV is.
SimpleClearCacheAnyEnv ==
    /\ variant = "simple"
    /\ cache' = [cache EXCEPT !["top-gainers"] = NoData]
    /\ lastFetch' = [lastFetch EXCEPT !["top-gainers"] = 0]
    /\ UNCHANGED <<pureVars, variant, devMode, clock, req, sent>>

\* part_000 197-209: POST /api/clear-cache
SimpleClearCache ==
    /\ variant = "simple"
    /\ IF devMode
       THEN /\ cache' = [cache EXCEPT !["top-gainers"] = NoData]
            /\ lastFetch' = [lastFetch EXCEPT !["top-gainers"] = 0]
       ELSE UNCHANGED <<cache, lastFetch>>
    /\ UNCHANGED <<pureVars, variant, devMode, clock, req, sent>>

(***************************************************************************)
(* signals: GET /api/explosion-candidates (index.js 792-835),              *)
(* GET /api/top-gainers (838-881), GET /api/new-listings (884-923).        *)
(* The three handlers differ in the cache variables they use and in the    *)
(* pipeline they run.  processTokensWithAnalysis awaits one getKlineData   *)
(* per token; the handler touches no shared state between those awaits,    *)
(* so the whole continuation after the ticker fetch is one step.           *)
(***************************************************************************)
\* up to the await of axios.get (794-807, 840-853, 886-899)
SignalsStart(r, k) ==
    /\ variant = "signals"
    /\ LowestIdle(r)
    /\ LET now == clock
       IN  IF cache[k].set /\ (now - lastFetch[k]) < Signals_CACHE_DURATION
           THEN /\ req' = [req EXCEPT ![r] = DoneReq]
                /\ sent' = [OkResp("true", cache[k].data)
                              EXCEPT !.by = r, !.key = k, !.now = now]
           ELSE /\ req' = [req EXCEPT ![r] =
                           [IdleReq EXCEPT !.pc = "fetch", !.key = k, !.now = now,
                                           !.fetches = 1]]
                /\ UNCHANGED sent
    /\ UNCHANGED <<pureVars, variant, devMode, clock, cache, lastFetch>>

\* the catch blocks (827-834, 873-880, 915-922)
SignalsCatch == ErrResp(500, "failed", "error-message")

\* lastFetch stamped with the time the recomputation ends instead of the
\* `now` read on arrival.
SignalsFinishStampsEnd(r, o, res) ==
    LET k == req[r].key
    IN  IF o.kind = "ok" /\ ~res.threw
        THEN /\ cache' = [cache EXCEPT ![k] = Data(res.out)]
             /\ lastFetch' = [lastFetch EXCEPT ![k] = clock]
             /\ Respond(r, o, OkResp("false", res.out))
        ELSE /\ Respond(r, o, SignalsCatch)
             /\ UNCHANGED <<cache, lastFetch>>

\* from the ticker fetch's end to the response, given the pipeline's result
SignalsFinish(r, o, res) ==
    LET k == req[r].key
    IN  IF o.kind = "ok" /\ ~res.threw
        THEN /\ cache' = [cache EXCEPT ![k] = Data(res.out)]
             /\ lastFetch' = [lastFetch EXCEPT ![k] = req[r].now]
             /\ Respond(r, o, OkResp("false", res.out))
        ELSE /\ Respond(r, o, SignalsCatch)
             /\ UNCHANGED <<cache, lastFetch>>

SignalsAnalysisReturn(r, k, minVolume, minGain) ==
    /\ variant = "signals"
    /\ req[r].pc = "fetch"
    /\ req[r].key = k
    /\ \E o \in Outcomes :
       \E klines \in [1 .. KlineCalls(o.body, minVolume, minGain) -> KlineSeries] :
          SignalsFinish(r, o, processTokensWithAnalysis(o.body, minVolume, minGain, klines))
    /\ UNCHANGED <<pureVars, variant, devMode, clock>>

SignalsExplosionStart(r) == SignalsStart(r, "explosion-candidates")

SignalsExplosionReturn(r) ==
    SignalsAnalysisReturn(r, "explosion-candidates", Signals_MIN_VOLUME_EXPLOSION,
                          Signals_MIN_GAIN_EXPLOSION)

SignalsTopGainersStart(r) == SignalsStart(r, "top-gainers")

SignalsTopGainersReturn(r) ==
    SignalsAnalysisReturn(r, "top-gainers", Signals_MIN_VOLUME_REGULAR,
                          Signals_MIN_GAIN_REGULAR)

SignalsNewListingsStart(r) == SignalsStart(r, "new-listings")

SignalsNewListingsReturn(r) ==
    /\ variant = "signals"
    /\ req[r].pc = "fetch"
    /\ req[r].key = "new-listings"
    /\ \E o \in Outcomes : SignalsFinish(r, o, detectNewListings(o.body))
    /\ UNCHANGED <<pureVars, variant, devMode, clock>>

\* index.js 926-930: GET /api/smart-analysis up to the await of axios.get;
\* the handler reads no cache variable and no clock.
SignalsSmartAnalysisStart(r) ==
    /\ variant = "signals"
    /\ LowestIdle(r)
    /\ req' = [req EXCEPT ![r] =
                [IdleReq EXCEPT !.pc = "fetch", !.key = "smart-analysis", !.now = clock,
                                !.fetches = 1]]
    /\ UNCHANGED <<pureVars, variant, devMode, clock, cache, lastFetch, sent>>

\* index.js 933-947: the three lists of the smart analysis, cut to 3, 3 and 2
SmartAnalysis(explosionCandidates, regularGainers, newListings) ==
    <<Slice(explosionCandidates, 3), Slice(regularGainers, 3), Slice(newListings, 2)>>

\* index.js 931-958: from the ticker fetch's end to the response; nothing is
\* stored.
SignalsSmartAnalysisFinish(r, o, explosion, regular, listings) ==
    /\ IF o.kind = "ok" /\ ~explosion.threw /\ ~regular.threw /\ ~listings.threw
       THEN Respond(r, o, OkResp("absent",
                                 SmartAnalysis(explosion.out, regular.out, listings.out)))
       ELSE Respond(r, o, SignalsCatch)
    /\ UNCHANGED <<cache, lastFetch>>

SignalsSmartAnalysisReturn(r) ==
    /\ variant = "signals"
    /\ req[r].pc = "fetch"
    /\ req[r].key = "smart-analysis"
    /\ \E o \in Outcomes :
       \E klinesE \in [1 .. KlineCalls(o.body, Signals_MIN_VOLUME_EXPLOSION,
                                       Signals_MIN_GAIN_EXPLOSION) -> KlineSeries] :
       \E klinesR \in [1 .. KlineCalls(o.body, Signals_MIN_VOLUME_REGULAR,
                                       Signals_MIN_GAIN_REGULAR) -> KlineSeries] :
          SignalsSmartAnalysisFinish(
              r, o,
              processTokensWithAnalysis(o.body, Signals_MIN_VOLUME_EXPLOSION,
                                        Signals_MIN_GAIN_EXPLOSION, klinesE),
              processTokensWithAnalysis(o.body, Signals_MIN_VOLUME_REGULAR,
                                        Signals_MIN_GAIN_REGULAR, klinesR),
              detectNewListings(o.body))
    /\ UNCHANGED <<pureVars, variant, devMode, clock>>

(***************************************************************************)
(* The "nodecache" deployment: src/index.js 1-558.  The cache is a         *)
(* node-cache instance (stdTTL 30 s, checkperiod 60 s, useClones false).   *)
(* cache[k] is the value stored under k and lastFetch[k] the time of the   *)
(* set that stored it; the entry's expiry time is that time plus stdTTL.   *)
(* maxKeys (100) is never reached: the handlers use four fixed keys.       *)
(***************************************************************************)
Node_EXPLOSION_MIN_VOLUME == 1000000
Node_EXPLOSION_MIN_GAIN == 8
Node_MIN_PRICE == 1
Node_MAX_PRICE == 100
Node_TOP_COUNT == 5

NodeKeys == {"explosion-candidates", "top-gainers"}

\* The expiry test of node-cache: an entry is expired once its expiry time
\* lies strictly before the current time.
NodeCacheExpired(k, now) ==
    cache[k].set /\ lastFetch[k] + Node_stdTTL * 1000 < now

\* cache.get(k), the value returned (NoData: undefined)
NodeCacheGet(k, now) ==
    IF cache[k].set /\ ~NodeCacheExpired(k, now) THEN cache[k] ELSE NoData

\* token.symbol.endsWith('USDT') throws a TypeError for an element that is
\* null, or whose symbol is not a string.
symbolThrows(item) == item.kind # "object" \/ item.symbol.t # "str"

\* response.data.filter(...) of getBinanceData (254-259)
PrimaryFilter(body) ==
    LET Keep(tok) ==
            /\ endsWithUSDT(tok.symbol)
            /\ JsGt(parseFloat(tok.quoteVolume), Fin(Node_EXPLOSION_MIN_VOLUME))
            /\ JsGt(parseFloat(tok.lastPrice), Fin(Node_MIN_PRICE))
            /\ JsLt(parseFloat(tok.lastPrice), Fin(Node_MAX_PRICE * 1000000))
    IN  IF ~body.isArray \/ (\E i \in 1 .. Len(body.items) : symbolThrows(body.items[i]))
        THEN [threw |-> TRUE, out |-> <<>>]
        ELSE [threw |-> FALSE, out |-> SelectSeq(body.items, Keep)]

\* fallbackResponse.data.filter(...) of getBinanceData (268-271)
FallbackFilter(body) ==
    LET Keep(tok) ==
            /\ endsWithUSDT(tok.symbol)
            /\ JsGt(parseFloat(tok.quoteVolume), Fin(Node_EXPLOSION_MIN_VOLUME))
    IN  IF ~body.isArray \/ (\E i \in 1 .. Len(body.items) : symbolThrows(body.items[i]))
        THEN [threw |-> TRUE, out |-> <<>>]
        ELSE [threw |-> FALSE, out |-> SelectSeq(body.items, Keep)]

\* index.js 325-334: the record built for a ticker from what
\* calculateExplosionScore returned for it (the timestamp is left out).
ExplosionCandidate(tok, analysis) ==
    [symbol |-> tok.symbol,
     price |-> parseFloat(tok.lastPrice),
     priceChangePercent |-> parseFloat(tok.priceChangePercent),
     volume |-> parseFloat(tok.quoteVolume),
     explosionScore |-> analysis.totalScore,
     analysis |-> analysis.breakdown,
     recommendation |-> analysis.recommendation]

\* index.js 321-337: the explosion candidates computed from getBinanceData's
\* result
NodeExplosionCandidates(binanceData) ==
    LET GainOk(tok) ==
            JsGt(parseFloat(tok.priceChangePercent), Fin(Node_EXPLOSION_MIN_GAIN * 1000))
        Candidate(tok) == ExplosionCandidate(tok, calculateExplosionScore(tok))
        kept(s) == SelectSeq(s, GainOk)
        mapped(s) == [i \in 1 .. Len(s) |-> Candidate(s[i])]
        ByScore(s) == SortedBy([i \in 1 .. Len(s) |-> Fin(s[i].explosionScore)], s)
    IN  Slice(ByScore(mapped(kept(binanceData))), Node_TOP_COUNT)

\* index.js 364-372 (the timestamp is left out)
TopGainer(tok, analysis) ==
    [symbol |-> tok.symbol,
     price |-> parseFloat(tok.lastPrice),
     priceChangePercent |-> parseFloat(tok.priceChangePercent),
     volume |-> parseFloat(tok.quoteVolume),
     score |-> analysis.totalScore,
     recommendation |-> analysis.recommendation]

\* index.js 360-376: the top gainers computed from getBinanceData's result
NodeTopGainers(binanceData) ==
    LET GainOk(tok) == JsGt(parseFloat(tok.priceChangePercent), Fin(0))
        Gainer(tok) == TopGainer(tok, calculateExplosionScore(tok))
        kept(s) == SelectSeq(s, GainOk)
        mapped(s) == [i \in 1 .. Len(s) |-> Gainer(s[i])]
        ByGain(s) == SortedBy([i \in 1 .. Len(s) |-> s[i].priceChangePercent], s)
    IN  Slice(ByGain(mapped(kept(binanceData))), Node_TOP_COUNT)

NodePipeline(k, binanceData) ==
    IF k = "explosion-candidates" THEN NodeExplosionCandidates(binanceData)
    ELSE NodeTopGainers(binanceData)

\* index.js 310-319, 349-358: cache.get, the hit response (the stored value
\* itself, a bare array) or the call of getBinanceData up to the await of
\* its first axios.get.  cache.get removes an expired entry.
NodeCacheStart(r, k) ==
    /\ variant = "nodecache"
    /\ LowestIdle(r)
    /\ LET now == clock
           cachedData == NodeCacheGet(k, now)
       IN  IF cachedData.set
           THEN /\ req' = [req EXCEPT ![r] = DoneReq]
                /\ sent' = [OkResp("absent", cachedData.data)
                              EXCEPT !.by = r, !.key = k, !.now = now]
                /\ UNCHANGED <<cache, lastFetch>>
           ELSE /\ req' = [req EXCEPT ![r] =
                           [IdleReq EXCEPT !.pc = "fetch", !.key = k, !.now = now,
                                           !.fetches = 1]]
                /\ cache' = [cache EXCEPT ![k] = NoData]
                /\ lastFetch' = [lastFetch EXCEPT ![k] = 0]
                /\ UNCHANGED sent
    /\ UNCHANGED <<pureVars, variant, devMode, clock>>

\* NodeCacheFinish storing the value without stamping the entry.
NodeCacheFinishUnstamped(r, o, binanceData) ==
    LET k == req[r].key
        result == NodePipeline(k, binanceData)
    IN  /\ cache' = [cache EXCEPT ![k] = Data(result)]
        /\ UNCHANGED lastFetch
        /\ Respond(r, o, OkResp("absent", result))

\* index.js 321-340, 360-379: from getBinanceData's return to the response;
\* cache.set stamps the entry with the time of the set.
NodeCacheFinish(r, o, binanceData) ==
    LET k == req[r].key
        result == NodePipeline(k, binanceData)
    IN  /\ cache' = [cache EXCEPT ![k] = Data(result)]
        /\ lastFetch' = [lastFetch EXCEPT ![k] = clock]
        /\ Respond(r, o, OkResp("absent", result))

\* getBinanceData 240-263: the first axios.get ends; a failure, or a filter
\* that throws, leads into the catch block and to the fallback axios.get.
NodeCachePrimaryReturn(r) ==
    /\ variant = "nodecache"
    /\ req[r].pc = "fetch"
    /\ \E o \in Outcomes :
        LET res == PrimaryFilter(o.body)
        IN  IF o.kind = "ok" /\ ~res.threw
            THEN NodeCacheFinish(r, o, res.out)
            ELSE /\ req' = [req EXCEPT ![r] =
                            [@ EXCEPT !.pc = "fallback", !.fetches = 2]]
                 /\ UNCHANGED <<cache, lastFetch, sent>>
    /\ UNCHANGED <<pureVars, variant, devMode, clock>>

\* getBinanceData 264-275: the fallback axios.get ends; on a failure
\* getBinanceData returns [].
NodeCacheFallbackReturn(r) ==
    /\ variant = "nodecache"
    /\ req[r].pc = "fallback"
    /\ \E o \in Outcomes :
        LET res == FallbackFilter(o.body)
        IN  IF o.kind = "ok" /\ ~res.threw
            THEN NodeCacheFinish(r, o, res.out)
            ELSE NodeCacheFinish(r, o, <<>>)
    /\ UNCHANGED <<pureVars, variant, devMode, clock>>

\* node-cache's periodic check (checkperiod): every expired entry is deleted.
NodeCacheCheckData ==
    /\ variant = "nodecache"
    /\ cache' = [k \in Keys |-> IF NodeCacheExpired(k, clock) THEN NoData ELSE cache[k]]
    /\ lastFetch' = [k \in Keys |-> IF NodeCacheExpired(k, clock) THEN 0 ELSE lastFetch[k]]
    /\ UNCHANGED <<pureVars, variant, devMode, clock, req, sent>>

(***************************************************************************)
(* The service.                                                            *)
(***************************************************************************)
Init ==
    /\ token = [priceChangePercent |-> RawNum(0), quoteVolume |-> RawNum(0),
                lastPrice |-> RawNum(0)]
    /\ scoreOut = NoScore
    /\ data = Unused
    /\ ranked = Unused
    /\ series = Unused
    /\ indicators = Unused
    /\ variant \in {"simple", "signals", "nodecache"}
    /\ devMode \in (IF variant = "simple" THEN BOOLEAN ELSE {FALSE})
    /\ clock = StartTime
    /\ cache = [k \in Keys |-> NoData]
    /\ lastFetch = [k \in Keys |-> 0]
    /\ req = [r \in Req |-> IdleReq]
    /\ sent = NoResp

Next ==
    \/ Tick
    \/ \E r \in Req : SimpleTopGainersStart(r)
    \/ \E r \in Req : SimpleTopGainersReturn(r)
    \/ SimpleClearCache
    \/ \E r \in Req : SignalsExplosionStart(r)
    \/ \E r \in Req : SignalsExplosionReturn(r)
    \/ \E r \in Req : SignalsTopGainersStart(r)
    \/ \E r \in Req : SignalsTopGainersReturn(r)
    \/ \E r \in Req : SignalsNewListingsStart(r)
    \/ \E r \in Req : SignalsNewListingsReturn(r)
    \/ \E r \in Req : SignalsSmartAnalysisStart(r)
    \/ \E r \in Req : SignalsSmartAnalysisReturn(r)
    \/ \E r \in Req : \E k \in NodeKeys : NodeCacheStart(r, k)
    \/ \E r \in Req : NodeCachePrimaryReturn(r)
    \/ \E r \in Req : NodeCacheFallbackReturn(r)
    \/ NodeCacheCheckData

Spec == Init /\ [][Next]_vars

\* The upstream fetch request r awaits ends.  Every axios.get carries a
\* timeout (part_000 104; index.js 250, 265, 681, 806, 852, 898, 930), so
\* the promise a handler awaits settles and its continuation runs.
FetchEnds(r) ==
    \/ SimpleTopGainersReturn(r)
    \/ SignalsExplosionReturn(r)
    \/ SignalsTopGainersReturn(r)
    \/ SignalsNewListingsReturn(r)
    \/ SignalsSmartAnalysisReturn(r)
    \/ NodeCachePrimaryReturn(r)
    \/ NodeCacheFallbackReturn(r)

SpecLive == Spec /\ \A r \in Req : WF_vars(FetchEnds(r))

(***************************************************************************)
(* The steps of a request, as the cache contract speaks of them.           *)
(***************************************************************************)
\* Request r arrives in this step.
Arrives(r) == req[r].pc = "idle" /\ req'[r].pc # "idle"

\* Request r arrives and is answered at once, without an upstream fetch.
AnsweredFromCache(r) == req[r].pc = "idle" /\ req'[r].pc = "done"

\* The key the arriving request r asks for.
ArrivalKey(r) == IF req'[r].pc = "done" THEN sent'.key ELSE req'[r].key

\* The handler of request r ends in this step, after its upstream fetch.
Completes(r) == req[r].pc \in {"fetch", "fallback"} /\ req'[r].pc = "done"

\* The last upstream fetch of the request answered ended without a response
\* body: a timeout, a non-2xx status or a network error.
UpstreamFailed(up) == up \in {"timeout", "status", "network"}

\* now - computedAt at the current time
Age(k) == clock - lastFetch[k]

C3_SingleFlight ==
    \A k \in Keys :
        Cardinality({r \in Req : req[r].pc \in {"fetch", "fallback"} /\ req[r].key = k}) <= 1

(***************************************************************************)
(* C4                                                                      *)
(***************************************************************************)
\* C4: a request whose upstream fetch failed leaves every key's payload and
\* computedAt exactly as they were.
C4_FailureKeepsCache ==
    [][\A r \in Req :
        (Completes(r) /\ UpstreamFailed(sent'.up))
        => (cache' = cache /\ lastFetch' = lastFetch)]_vars

(***************************************************************************)
(* C5                                                                      *)
(***************************************************************************)
\* C5: a request that missed because the key's entry was older than TTL and
\* whose upstream fetch then failed is answered with the stale payload.
C5_StaleServedOnFailure ==
    [][\A r \in Req :
        (/\ Completes(r)
         /\ UpstreamFailed(sent'.up)
         /\ variant \in {"simple", "signals"}
         /\ cache[req[r].key].set
         /\ req[r].now - lastFetch[req[r].key] >= Ttl)
        => (sent'.status = 200 /\ sent'.data = cache[req[r].key])]_vars

(***************************************************************************)
(* C6                                                                      *)
(***************************************************************************)
\* C6: a request whose upstream fetch failed, fallback included, while the
\* key holds no entry ends with a failure response, never with a success.
C6_FailureSurfaced ==
    [][\A r \in Req :
        (Completes(r) /\ UpstreamFailed(sent'.up) /\ ~cache[req[r].key].set)
        => sent'.status # 200]_vars

C11_Tier(total) ==
    IF total >= 80000 THEN <<"COMPRA FUERTE", 125, 85>>
    ELSE IF total >= 60000 THEN <<"COMPRA MODERADA", 115, 90>>
    ELSE IF total >= 40000 THEN <<"OBSERVAR", 110, 95>>
    ELSE <<"EVITAR", 0, 0>>

\* lastPrice x hundredths / 100 written with eight decimals: the price is
\* n millionths, n = 100 h + l, so the product is h x hundredths millionths
\* plus l x hundredths hundred-millionths.
C11_Product(raw, hundredths) ==
    CASE raw.t \in {"num", "junk"} ->
            LET a == IF raw.n < 0 THEN 0 - raw.n ELSE raw.n
                h == a \div 100
                l == a % 100
                micro == (h * hundredths) + ((l * hundredths) \div 100)
            IN  [t |-> "fixed8", neg |-> raw.n < 0,
                 whole |-> micro \div 1000000,
                 frac |-> ((micro % 1000000) * 100) + ((l * hundredths) % 100)]
      [] raw.t = "inf" -> RawInf
      [] raw.t = "ninf" -> RawNegInf
      [] OTHER -> RawText

C11_RecommendationByTotalScore ==
    scoreOut.done =>
        LET tier == C11_Tier(scoreOut.totalScore)
            rec == scoreOut.recommendation
        IN  /\ rec.action = tier[1]
            /\ tier[1] # "EVITAR" =>
                  /\ rec.buyPrice # JsNull
                  /\ rec.buyPrice = parseFloat(token.lastPrice)
                  /\ rec.sellTarget # RawNull
                  /\ rec.sellTarget = C11_Product(token.lastPrice, tier[2])
                  /\ rec.stopLoss # RawNull
                  /\ rec.stopLoss = C11_Product(token.lastPrice, tier[3])
            /\ tier[1] = "EVITAR" =>
                  /\ rec.buyPrice = JsNull
                  /\ rec.sellTarget = RawNull
                  /\ rec.stopLoss = RawNull

\* A ticker scored exactly 80 (30 + 25 + 20 + 5 + 0) and advised as a
\* strong buy at 99.999999 with target 124.99999875 and stop 84.99999915.
C11_Witness ==
    /\ scoreOut.done
    /\ scoreOut.totalScore = 80000
    /\ token.lastPrice = RawNum(99999999)
    /\ scoreOut.recommendation.action = "COMPRA FUERTE"
    /\ scoreOut.recommendation.sellTarget = Fixed8(FALSE, 124, 99999875)
    /\ scoreOut.recommendation.stopLoss = Fixed8(FALSE, 84, 99999915)

(***************************************************************************)
(* The pipelines as functions of the upstream response: each entry point   *)
(* is applied to a response drawn from PipeBodies.                         *)
(***************************************************************************)
\* 30 %: the same explosion score as TickerA (100) with a different gain
TickerTieGain == Ticker(Sym("BBB", "USDT"), RawNum(2000000), RawNum(30000), RawNum(60000000))
\* TickerA's numbers under another symbol
TickerTieSym == Ticker(Sym("JJJ", "USDT"), RawNum(2000000), RawNum(22000), RawNum(60000000))
\* 40 % on a volume of 2M: a higher gain than TickerA and a lower score
TickerThin == Ticker(Sym("EEE", "USDT"), RawNum(2000000), RawNum(40000), RawNum(2000000))
\* symbol absent
TickerNoSym == Ticker(SymUndef, RawNum(2000000), RawNum(22000), RawNum(60000000))
\* lastPrice is not a number
TickerBadPrice == Ticker(Sym("FFF", "USDT"), RawText, RawNum(22000), RawNum(60000000))
\* quoteVolume is the text "Infinity"
TickerInfVol == Ticker(Sym("GGG", "USDT"), RawNum(2000000), RawNum(22000), RawInf)
\* price 200.0, above MAX_PRICE
TickerDear == Ticker(Sym("HHH", "USDT"), RawNum(200000000), RawNum(22000), RawNum(60000000))
\* 25 % on a volume of 150000: a new listing by detectNewListings' criteria
TickerNew == Ticker(Sym("NNN", "USDT"), RawNum(2000000), RawNum(25000), RawNum(150000))
\* a new listing by the same criteria whose lastPrice is the text "Infinity"
TickerInfNew == Ticker(Sym("III", "USDT"), RawInf, RawNum(25000), RawNum(150000))
\* an element of the array that is a string
StringItem == [NullItem EXCEPT !.kind = "string"]

PipeTickers ==
    {TickerA, TickerTieGain, TickerTieSym, TickerThin, TickerLow, TickerBtc,
     TickerNoVol, TickerNoSym, TickerBadPrice, TickerInfVol, TickerDear, TickerNew,
     TickerInfNew,
     NullItem, StringItem}

\* The longest response made of PipeTickers
MaxItems == 3

\* The base currency of the i-th ticker of CrowdBody: "X01" to "X50"
CrowdName(i) == IF i < 10 THEN "X0" \o ToString(i) ELSE "X" \o ToString(i)

\* 22 % on a volume of 20M: ten times the volume of CrowdBody's other tickers
TickerLate == Ticker(Sym("AAA", "USDT"), RawNum(2000000), RawNum(22000), RawNum(20000000))

\* More tickers than processTokensWithAnalysis analyses (50): fifty tickers
\* of 40 % on a volume of 2M, then TickerLate.
CrowdBody ==
    ArrayBody([i \in 1 .. 51 |->
                 IF i <= 50
                 THEN Ticker(Sym(CrowdName(i), "USDT"), RawNum(2000000), RawNum(40000),
                             RawNum(2000000))
                 ELSE TickerLate])

\* The sequences of 1 to n different elements of S
RECURSIVE Arrangements(_, _)
Arrangements(S, n) ==
    IF n = 0 THEN {<<>>}
    ELSE LET shorter == Arrangements(S, n - 1)
         IN  shorter \cup
             {Append(s, x) : s \in {t \in shorter : Len(t) = n - 1},
                             x \in S}

PipeBodies ==
    {NotArrayBody, CrowdBody} \cup
    {ArrayBody(s) : s \in {t \in Arrangements(PipeTickers, MaxItems) :
                             /\ t # <<>>
                             /\ \A i, j \in 1 .. Len(t) : i # j => t[i] # t[j]}}

\* index.js 240-276: what getBinanceData returns when its first axios.get
\* ends as `primary` and, if that fails or its filter throws, the fallback
\* axios.get ends as `fallback`.
getBinanceData(primary, fallback) ==
    IF primary.kind = "ok" /\ ~PrimaryFilter(primary.body).threw
    THEN PrimaryFilter(primary.body).out
    ELSE IF fallback.kind = "ok" /\ ~FallbackFilter(fallback.body).threw
    THEN FallbackFilter(fallback.body).out
    ELSE <<>>

Ok(body) == [kind |-> "ok", body |-> body]
TimedOut == [kind |-> "timeout", body |-> NotArrayBody]

\* What getBinanceData returns on `path`: both fetches deliver `body`
\* ("primary"), or the first times out and the fallback delivers `body`.
BinanceDataOn(path, body) ==
    IF path = "primary" THEN getBinanceData(Ok(body), Ok(body))
    ELSE getBinanceData(TimedOut, Ok(body))

Paths == {"primary", "fallback"}

\* getKlineData returns the same series for every symbol of a run.
SameKlines(ks) == [i \in 1 .. 50 |-> ks]

NoRanked == [done |-> FALSE, by |-> "none", path |-> "none", klines |-> <<>>,
             threw |-> FALSE, out |-> <<>>]

Ranked(by, path, ks, res) ==
    [done |-> TRUE, by |-> by, path |-> path, klines |-> ks,
     threw |-> res.threw, out |-> res.out]

Returned(out) == [threw |-> FALSE, out |-> out]

PipeInit ==
    /\ data \in PipeBodies
    /\ ranked = NoRanked
    /\ token = Unused
    /\ scoreOut = Unused
    /\ series = Unused
    /\ indicators = Unused
    /\ variant = "none"
    /\ devMode = FALSE
    /\ clock = 0
    /\ cache = [k \in Keys |-> NoData]
    /\ lastFetch = [k \in Keys |-> 0]
    /\ req = [r \in Req |-> IdleReq]
    /\ sent = NoResp

\* part_000 111: processGainersData(response.data)
RunProcessGainersData ==
    /\ ~ranked.done
    /\ ranked' = Ranked("simple", "none", <<>>, processGainersData(data))
    /\ UNCHANGED <<data, scoreVars, indVars, serviceVars>>

\* index.js 806-810 (signals explosion candidates)
RunSignalsExplosion ==
    /\ ~ranked.done
    /\ \E ks \in KlineSeries :
         /\ ranked' = Ranked("signals-explosion", "none", ks,
                             processTokensWithAnalysis(data, Signals_MIN_VOLUME_EXPLOSION,
                                 Signals_MIN_GAIN_EXPLOSION, SameKlines(ks)))
         /\ data' = [data EXCEPT !.items =
                        processTokensWithAnalysisInput(data, Signals_MIN_VOLUME_EXPLOSION,
                            Signals_MIN_GAIN_EXPLOSION, SameKlines(ks))]
    /\ UNCHANGED <<scoreVars, indVars, serviceVars>>

\* index.js 852-856 (signals top gainers)
RunSignalsTopGainers ==
    /\ ~ranked.done
    /\ \E ks \in KlineSeries :
         /\ ranked' = Ranked("signals-top-gainers", "none", ks,
                             processTokensWithAnalysis(data, Signals_MIN_VOLUME_REGULAR,
                                 Signals_MIN_GAIN_REGULAR, SameKlines(ks)))
         /\ data' = [data EXCEPT !.items =
                        processTokensWithAnalysisInput(data, Signals_MIN_VOLUME_REGULAR,
                            Signals_MIN_GAIN_REGULAR, SameKlines(ks))]
    /\ UNCHANGED <<scoreVars, indVars, serviceVars>>

\* index.js 898 (signals new listings)
RunDetectNewListings ==
    /\ ~ranked.done
    /\ ranked' = Ranked("signals-new-listings", "none", <<>>, detectNewListings(data))
    /\ UNCHANGED <<data, scoreVars, indVars, serviceVars>>

\* index.js 319-337 (nodecache explosion candidates)
RunNodeExplosion ==
    /\ ~ranked.done
    /\ \E path \in Paths :
         ranked' = Ranked("node-explosion", path, <<>>,
                          Returned(NodeExplosionCandidates(BinanceDataOn(path, data))))
    /\ UNCHANGED <<data, scoreVars, indVars, serviceVars>>

\* index.js 358-375 (nodecache top gainers)
RunNodeTopGainers ==
    /\ ~ranked.done
    /\ \E path \in Paths :
         ranked' = Ranked("node-top-gainers", path, <<>>,
                          Returned(NodeTopGainers(BinanceDataOn(path, data))))
    /\ UNCHANGED <<data, scoreVars, indVars, serviceVars>>

\* index.js 254-259, 267-270: whether the filter of getBinanceData that
\* delivers on `path` keeps the i-th element of the response
BinanceKeeps(path, body, i) ==
    /\ body.isArray
    /\ \A j \in 1 .. Len(body.items) : ~symbolThrows(body.items[j])
    /\ Len(BinanceDataOn(path, ArrayBody(<<body.items[i]>>))) = 1

\* index.js 240-276: binanceData as an array derived from response.data
BinanceChain(path, body) ==
    ArrayFilter(ArrayChain(body.items),
                [i \in 1 .. Len(body.items) |-> BinanceKeeps(path, body, i)])

\* index.js 454: { ...token, analysis }
Spread(tok, analysis) == ("analysis" :> analysis) @@ tok

\* index.js 450-458: explosions
NodeSmartExplosions(binanceData) ==
    LET hot(c) ==
            ArrayFilter(c, [i \in 1 .. Len(c.current) |->
                              JsGt(parseFloat(c.current[i].priceChangePercent),
                                   Fin(15000))])
        spread(c) ==
            ArrayMap(c, [i \in 1 .. Len(c.current) |->
                           Spread(c.current[i], calculateExplosionScore(c.current[i]))])
        byScore(c) ==
            ArraySort(c, [i \in 1 .. Len(c.current) |->
                            Fin(c.current[i].analysis.totalScore)],
                         [i \in 1 .. Len(c.current) |-> Fin(0)])
    IN  ArraySlice(byScore(spread(hot(binanceData))), 3)

\* index.js 471-478: safeTokens
NodeSmartSafeTokens(binanceData) ==
    LET steady(c) ==
            ArrayFilter(c, [i \in 1 .. Len(c.current) |->
                /\ JsGt(parseFloat(c.current[i].priceChangePercent), Fin(2000))
                /\ JsLt(parseFloat(c.current[i].priceChangePercent), Fin(8000))
                /\ JsGt(parseFloat(c.current[i].quoteVolume), Fin(10000000))])
        byVolume(c) ==
            ArraySort(c, [i \in 1 .. Len(c.current) |->
                            parseFloat(c.current[i].quoteVolume)],
                         [i \in 1 .. Len(c.current) |-> Fin(0)])
    IN  ArraySlice(byVolume(steady(binanceData)), 3)

\* index.js 460-468, 480-491: an element of explosionAlerts and of
\* safeInvestments (the alert and reason texts are left out)
SmartAlert(tok, analysis) ==
    [symbol |-> tok.symbol,
     price |-> parseFloat(tok.lastPrice),
     change |-> parseFloat(tok.priceChangePercent),
     volume |-> parseFloat(tok.quoteVolume),
     score |-> analysis.totalScore,
     recommendation |-> analysis.recommendation]

\* index.js 440-491: the two lists of GET /api/smart-analysis (NodeCache
\* service), computed from the array getBinanceData returned, and the
\* elements of response.data after that
NodeSmartLists(binanceData) ==
    LET alerts(s) == [i \in 1 .. Len(s) |-> SmartAlert(s[i], s[i].analysis)]
        invests(s) == [i \in 1 .. Len(s) |-> SmartAlert(s[i], calculateExplosionScore(s[i]))]
        After(explosions) == [binanceData EXCEPT !.input = explosions.input]
        Both(explosions, safeTokens) ==
            [explosionAlerts |-> alerts(explosions.current),
             safeInvestments |-> invests(safeTokens.current),
             input |-> safeTokens.input]
        Second(explosions) == Both(explosions, NodeSmartSafeTokens(After(explosions)))
    IN  Second(NodeSmartExplosions(binanceData))

\* index.js 431-491 (NodeCache smart analysis): the stretch of the handler
\* that derives the two lists; market sentiment and statistics only read
\* binanceData.
RunNodeSmartAnalysis ==
    /\ ~ranked.done
    /\ \E path \in Paths :
         LET lists == NodeSmartLists(BinanceChain(path, data))
         IN  /\ ranked' = Ranked("node-smart-analysis", path, <<>>,
                                 Returned(<<lists.explosionAlerts, lists.safeInvestments>>))
             /\ data' = [data EXCEPT !.items = lists.input]
    /\ UNCHANGED <<scoreVars, indVars, serviceVars>>

PipeNext ==
    \/ RunProcessGainersData
    \/ RunSignalsExplosion
    \/ RunSignalsTopGainers
    \/ RunDetectNewListings
    \/ RunNodeExplosion
    \/ RunNodeTopGainers
    \/ RunNodeSmartAnalysis

SpecPipe == PipeInit /\ [][PipeNext]_vars

(***************************************************************************)
(* Vocabulary of the claims about pipeline results.                        *)
(***************************************************************************)
\* The results whose records carry a score.
ScoredKinds == {"signals-explosion", "signals-top-gainers", "node-explosion",
                "node-top-gainers"}

NodeKinds == {"node-explosion", "node-top-gainers"}

\* The score and the percent gain of a record of a result of kind `by`.
ScoreOf(by, rec) == IF by = "node-explosion" THEN rec.explosionScore ELSE rec.score

GainOf(by, rec) ==
    IF by \in NodeKinds THEN rec.priceChangePercent ELSE parseFloat(rec.percentChange)

\* The place of a symbol in lexical order, for the base currencies of
\* PipeTickers and of CrowdBody.
SymbolRank(sym) ==
    CASE sym.base = "AAA" -> 1
      [] sym.base = "BBB" -> 2
      [] sym.base = "CCC" -> 3
      [] sym.base = "DDD" -> 4
      [] sym.base = "EEE" -> 5
      [] sym.base = "FFF" -> 6
      [] sym.base = "GGG" -> 7
      [] sym.base = "HHH" -> 8
      [] sym.base = "III" -> 9
      [] sym.base = "JJJ" -> 10
      [] sym.base = "NNN" -> 11
      [] OTHER -> 12 + (CHOOSE i \in 1 .. 50 : CrowdName(i) = sym.base)

(***************************************************************************)
(* C12.  In every ranked result, two candidates with equal score appear in *)
(* order of percent gain descending, and candidates equal in score and in  *)
(* percent gain appear in ascending symbol order.                          *)
(***************************************************************************)
C12_TieBreak ==
    (ranked.done /\ ranked.by \in ScoredKinds /\ ~ranked.threw) =>
        \A i, j \in 1 .. Len(ranked.out) :
            LET a == ranked.out[i]
                b == ranked.out[j]
            IN  (i < j /\ ScoreOf(ranked.by, a) = ScoreOf(ranked.by, b)) =>
                    /\ ~JsGt(GainOf(ranked.by, b), GainOf(ranked.by, a))
                    /\ GainOf(ranked.by, a) = GainOf(ranked.by, b) =>
                           SymbolRank(a.symbol) <= SymbolRank(b.symbol)

\* The same for the results of processTokensWithAnalysis and for the order
\* by gain alone: what its comparator does establish.
C12_SignalsGainOrder ==
    (ranked.done /\ ranked.by \in {"signals-explosion", "signals-top-gainers"}
     /\ ~ranked.threw) =>
        \A i, j \in 1 .. Len(ranked.out) :
            (i < j /\ ranked.out[i].score = ranked.out[j].score) =>
                ~JsGt(GainOf(ranked.by, ranked.out[j]), GainOf(ranked.by, ranked.out[i]))

(***************************************************************************)
(* C13.  The pipeline result has at most N records, is sorted by score     *)
(* descending, and holds the N best-ranked of ALL records that survive     *)
(* validation and the predicates: no surviving record left out of the      *)
(* result has a strictly higher score than a record in the result.         *)
(***************************************************************************)
C13_TopCount(by) == IF by \in NodeKinds THEN Node_TOP_COUNT ELSE Signals_TOP_COUNT

\* The upstream records that survive validation and the predicates of the
\* result's kind.
C13_Survivors(by, path, body) ==
    LET ExplosionGain(tok) ==
            JsGt(parseFloat(tok.priceChangePercent), Fin(Node_EXPLOSION_MIN_GAIN * 1000))
        AnyGain(tok) == JsGt(parseFloat(tok.priceChangePercent), Fin(0))
    IN  CASE by = "node-explosion" -> SelectSeq(BinanceDataOn(path, body), ExplosionGain)
          [] by = "node-top-gainers" -> SelectSeq(BinanceDataOn(path, body), AnyGain)
          [] by = "signals-explosion" ->
                SignalsFilter(body.items, Signals_MIN_VOLUME_EXPLOSION,
                              Signals_MIN_GAIN_EXPLOSION)
          [] OTHER ->
                SignalsFilter(body.items, Signals_MIN_VOLUME_REGULAR,
                              Signals_MIN_GAIN_REGULAR)

\* The score the kind's scorer gives to a surviving record.
C13_SurvivorScore(by, item, survivors, ks) ==
    IF by \in NodeKinds THEN calculateExplosionScore(item).totalScore
    ELSE calculateTokenScore(
             [percentChange |-> toFixed2(parseFloat(item.priceChangePercent)),
              volume |-> toFixedExact(parseFloat(item.quoteVolume)),
              rsi |-> calculateSimpleRSI(ks),
              momentum |-> calculateMomentum(ks)],
             averageVolume(survivors))

C13_TopNByScore ==
    (ranked.done /\ ranked.by \in ScoredKinds /\ ~ranked.threw) =>
        LET out == ranked.out
            survivors == C13_Survivors(ranked.by, ranked.path, data)
            inResult == {out[i].symbol : i \in 1 .. Len(out)}
        IN  /\ Len(out) <= C13_TopCount(ranked.by)
            /\ \A i, j \in 1 .. Len(out) :
                  i < j => ScoreOf(ranked.by, out[i]) >= ScoreOf(ranked.by, out[j])
            /\ \A s \in 1 .. Len(survivors) :
                  survivors[s].symbol \notin inResult =>
                      \A i \in 1 .. Len(out) :
                          C13_SurvivorScore(ranked.by, survivors[s], survivors,
                                            ranked.klines)
                              <= ScoreOf(ranked.by, out[i])

\* The result of the pipeline of kind `by` on the response `body`.
PipeResult(by, path, ks, body) ==
    CASE by = "simple" -> processGainersData(body)
      [] by = "signals-explosion" ->
            processTokensWithAnalysis(body, Signals_MIN_VOLUME_EXPLOSION,
                                      Signals_MIN_GAIN_EXPLOSION, SameKlines(ks))
      [] by = "signals-top-gainers" ->
            processTokensWithAnalysis(body, Signals_MIN_VOLUME_REGULAR,
                                      Signals_MIN_GAIN_REGULAR, SameKlines(ks))
      [] by = "signals-new-listings" -> detectNewListings(body)
      [] by = "node-explosion" ->
            Returned(NodeExplosionCandidates(BinanceDataOn(path, body)))
      [] OTHER -> Returned(NodeTopGainers(BinanceDataOn(path, body)))

\* The response without its i-th record.
WithoutRecord(body, i) ==
    ArrayBody(SubSeq(body.items, 1, i - 1) \o SubSeq(body.items, i + 1, Len(body.items)))

(***************************************************************************)
(* C14.  A record that is null, not an object, or lacks any of symbol,     *)
(* lastPrice, priceChangePercent, quoteVolume is dropped: the result is    *)
(* the result of the pipeline on the same collection without that record,  *)
(* and the pipeline does not fail because of it.                           *)
(***************************************************************************)
C14_Malformed(item) ==
    \/ item.kind # "object"
    \/ item.symbol.t \in {"undef", "null"}
    \/ item.lastPrice.t \in {"undef", "null"}
    \/ item.priceChangePercent.t \in {"undef", "null"}
    \/ item.quoteVolume.t \in {"undef", "null"}

C14_MalformedDropped ==
    (ranked.done /\ data.isArray) =>
        \A i \in 1 .. Len(data.items) :
            C14_Malformed(data.items[i]) =>
                LET rest == PipeResult(ranked.by, ranked.path, ranked.klines,
                                       WithoutRecord(data, i))
                IN  /\ ~ranked.threw
                    /\ ranked.out = rest.out
                    /\ rest.out # <<>> => ranked.out # <<>>

\* The same for the pipelines of part_000 and of the signals service, which
\* test each element before they read its fields.
C14_MalformedDroppedByValidation ==
    (ranked.done /\ data.isArray /\ ranked.by \notin NodeKinds) =>
        \A i \in 1 .. Len(data.items) :
            C14_Malformed(data.items[i]) =>
                LET rest == PipeResult(ranked.by, ranked.path, ranked.klines,
                                       WithoutRecord(data, i))
                IN  /\ ~ranked.threw
                    /\ ranked.out = rest.out

(***************************************************************************)
(* C15.  No record whose lastPrice, priceChangePercent or quoteVolume does *)
(* not parse to a finite number (non-numeric text, NaN, an infinite value) *)
(* appears in a pipeline result.                                           *)
(***************************************************************************)
C15_Finite(raw) == parseFloat(raw).k = "fin"

C15_OnlyFiniteRecords ==
    (ranked.done /\ data.isArray /\ ~ranked.threw) =>
        \A i \in 1 .. Len(data.items) :
            LET item == data.items[i]
            IN  (\/ ~C15_Finite(item.lastPrice)
                 \/ ~C15_Finite(item.priceChangePercent)
                 \/ ~C15_Finite(item.quoteVolume)) =>
                    \A j \in 1 .. Len(ranked.out) : ranked.out[j].symbol # item.symbol

(***************************************************************************)
(* C16.  Every record of every result carries the USDT suffix and          *)
(* satisfies the predicates configured for its kind: quote volume above    *)
(* the minimum, percent gain above the minimum and, in the NodeCache       *)
(* service, lastPrice inside the price band (MIN_PRICE, MAX_PRICE), on the *)
(* primary and on the fallback path.                                       *)
(***************************************************************************)
C16_MinVolume(by) ==
    CASE by = "simple" -> Simple_MIN_VOLUME
      [] by = "signals-explosion" -> Signals_MIN_VOLUME_EXPLOSION
      [] by = "signals-top-gainers" -> Signals_MIN_VOLUME_REGULAR
      [] OTHER -> Node_EXPLOSION_MIN_VOLUME

\* in thousandths of a percent
C16_MinGain(by) ==
    CASE by = "simple" -> Simple_MIN_GAIN_PERCENT * 1000
      [] by = "signals-explosion" -> Signals_MIN_GAIN_EXPLOSION * 1000
      [] by = "signals-top-gainers" -> Signals_MIN_GAIN_REGULAR * 1000
      [] by = "node-explosion" -> Node_EXPLOSION_MIN_GAIN * 1000
      [] OTHER -> 0

C16_Satisfies(by, item) ==
    /\ item.symbol.t = "str"
    /\ item.symbol.quote = "USDT"
    /\ JsGt(parseFloat(item.quoteVolume), Fin(C16_MinVolume(by)))
    /\ JsGt(parseFloat(item.priceChangePercent), Fin(C16_MinGain(by)))
    /\ by \in NodeKinds =>
          /\ JsGt(parseFloat(item.lastPrice), Fin(Node_MIN_PRICE))
          /\ JsLt(parseFloat(item.lastPrice), Fin(Node_MAX_PRICE * 1000000))

C16_Kinds == {"simple", "signals-explosion", "signals-top-gainers", "node-explosion",
              "node-top-gainers"}

C16_PredicatesOnEveryPath ==
    (ranked.done /\ ranked.by \in C16_Kinds /\ ~ranked.threw) =>
        \A j \in 1 .. Len(ranked.out) :
            \A i \in 1 .. Len(data.items) :
                data.items[i].symbol = ranked.out[j].symbol =>
                    C16_Satisfies(ranked.by, data.items[i])

\* The same without the results getBinanceData builds from its fallback
\* fetch.
C16_PredicatesOnPrimaryPath ==
    (ranked.done /\ ranked.by \in C16_Kinds /\ ~ranked.threw
     /\ ranked.path # "fallback") =>
        \A j \in 1 .. Len(ranked.out) :
            \A i \in 1 .. Len(data.items) :
                data.items[i].symbol = ranked.out[j].symbol =>
                    C16_Satisfies(ranked.by, data.items[i])


(***************************************************************************)
(* C17: when the upstream response is not an array of records, the request *)
(* ends as a failure: the response sent is an error response, not a        *)
(* successful one, and nothing is stored in the cache.                     *)
(***************************************************************************)
C17_FormatErrorSurfaced ==
    [][\A r \in Req :
         (Completes(r) /\ sent'.up = "notarray")
            => /\ sent'.status >= 400
               /\ cache' = cache
               /\ lastFetch' = lastFetch]_vars


(***************************************************************************)
(* The indicator functions as pure functions of a price series.            *)
(* NodeCache service: TechnicalAnalysis (index.js 53-134); signals         *)
(* service: calculateSimpleRSI and calculateMomentum (index.js 602-639).   *)
(* A series holds non-negative integer prices; positions are counted from  *)
(* 0 as in the code, so position i is series[i + 1].                       *)
(***************************************************************************)
\* The default of calculateRSI's parameter period (index.js 54)
RSI_PERIOD == 14

\* index.js 60-61: the positions of prices the loop of calculateRSI reads
\* (none when the length test of line 55 returns first)
calculateRSIReads(prices, period) ==
    IF Len(prices) < period THEN {} ELSE 0 .. period

\* index.js 54-73.  A position at or beyond prices.length reads undefined;
\* undefined - x is NaN, NaN > 0 is false, so losses, avgLoss and the
\* result become NaN.  Otherwise 100 - 100 / (1 + avgGain / avgLoss)
\* = 100 G / (G + L) for the sums G, L of the gains and losses.
calculateRSI(prices, period) ==
    IF Len(prices) < period THEN Rat(50, 1)
    ELSE IF \E i \in calculateRSIReads(prices, period) : i >= Len(prices) THEN RatNaN
    ELSE
    LET change(i) == prices[i + 1] - prices[i]
        G == SumSeq([i \in 1 .. period |-> IF change(i) > 0 THEN change(i) ELSE 0])
        L == SumSeq([i \in 1 .. period |-> IF change(i) > 0 THEN 0 ELSE 0 - change(i)])
    IN  IF L = 0 THEN Rat(100, 1) ELSE Rat(100 * G, G + L)

\* A finite number that is not negative and whose magnitude is not
\* modelled: Math.sqrt(variance) * 100 of finite returns.
RatSqrt == [k |-> "sqrt", n |-> 0, d |-> 1]

\* index.js 80: some return divides by a previous price of 0
calculateVolatilityDividesByZero(prices) ==
    Len(prices) >= 2 /\ \E i \in 1 .. Len(prices) - 1 : prices[i] = 0

\* index.js 75-87.  A return x / 0 is an infinity or NaN; the mean of the
\* returns is then not finite and the variance, which subtracts the mean
\* from that return, is NaN.
calculateVolatility(prices) ==
    IF Len(prices) < 2 THEN Rat(0, 1)
    ELSE IF calculateVolatilityDividesByZero(prices) THEN RatNaN
    ELSE RatSqrt

\* An argument that is undefined.
RatUndef == [k |-> "undef", n |-> 0, d |-> 1]

\* index.js 89-92 for a currentVolume that is a number and an avgVolume
\* that is undefined, NaN or a fraction that is not negative.
Node_detectVolumeSpike(currentVolume, avgVolume) ==
    IF avgVolume.k \in {"undef", "nan"} \/ avgVolume.n = 0 THEN Rat(1, 1)
    ELSE Rat(currentVolume * avgVolume.d, avgVolume.n)

\* index.js 127-128: recent or older is empty, so its average is 0 / 0
getTrendDividesByZero(prices) ==
    Len(LastN(prices, 5)) = 0 \/ Len(SliceM10M5(prices)) = 0

\* getTrend with the two comparisons written with >= and <=.
getTrendInclusive(prices) ==
    LET R(recent) == SumSeq(recent) * 100
        O(older) == SumSeq(older)
        Above(recent, older) ==
            R(recent) * Len(older) >= O(older) * 102 * Len(recent)
        Below(recent, older) ==
            R(recent) * Len(older) <= O(older) * 98 * Len(recent)
    IN  IF getTrendDividesByZero(prices) THEN "NEUTRAL"
        ELSE IF Above(LastN(prices, 5), SliceM10M5(prices)) THEN "BULLISH"
        ELSE IF Below(LastN(prices, 5), SliceM10M5(prices)) THEN "BEARISH"
        ELSE "NEUTRAL"

\* index.js 123-133.  recentAvg = R / n, olderAvg = O / m; a NaN average
\* makes both comparisons false.
getTrend(prices) ==
    LET R(recent) == SumSeq(recent) * 100
        O(older) == SumSeq(older)
        Above(recent, older) ==
            R(recent) * Len(older) > O(older) * 102 * Len(recent)
        Below(recent, older) ==
            R(recent) * Len(older) < O(older) * 98 * Len(recent)
    IN  IF getTrendDividesByZero(prices) THEN "NEUTRAL"
        ELSE IF Above(LastN(prices, 5), SliceM10M5(prices)) THEN "BULLISH"
        ELSE IF Below(LastN(prices, 5), SliceM10M5(prices)) THEN "BEARISH"
        ELSE "NEUTRAL"

\* index.js 635, 638: older is empty (0 / 0), or its average is 0
calculateMomentumDividesByZero(prices) ==
    Len(prices) >= 5 /\ (Len(SliceM10M5(prices)) = 0 \/ SumSeq(SliceM10M5(prices)) = 0)

(***************************************************************************)
(* The series the indicators are applied to: every length up to MaxSamples *)
(* in each of the shapes below.                                            *)
(***************************************************************************)
MaxSamples == 16

Shapes == {"flat", "rising", "falling", "zigzag", "zero", "fromzero", "latedip", "earlydip",
           "stepup", "stepdown"}

SampleOf(shape, i) ==
    CASE shape = "flat" -> 100
      [] shape = "rising" -> 100 + 2 * i
      [] shape = "falling" -> 200 - 2 * i
      [] shape = "zigzag" -> 100 + 4 * (i % 2)
      [] shape = "zero" -> 0
      [] shape = "fromzero" -> 2 * (i - 1)
      [] shape = "latedip" -> IF i <= 15 THEN 100 + 2 * i ELSE 100
      [] shape = "stepup" -> IF i <= 5 THEN 100 ELSE 102
      [] shape = "stepdown" -> IF i <= 5 THEN 100 ELSE 98
      [] OTHER -> IF i = 1 THEN 120 ELSE 100 + 2 * i

SeriesOf(shape, n) == [i \in 1 .. n |-> SampleOf(shape, i)]

InputSeries == {SeriesOf(shape, n) : shape \in Shapes, n \in 0 .. MaxSamples}

NoIndicators == [fn |-> "none", value |-> RatUndef, label |-> "none",
                 reads |-> {}, dividedByZero |-> FALSE, avgVolume |-> RatUndef]

Indicator(fn, value, dividedByZero) ==
    [NoIndicators EXCEPT !.fn = fn, !.value = value, !.dividedByZero = dividedByZero]

IndInit ==
    /\ series \in InputSeries
    /\ indicators = NoIndicators
    /\ token = Unused
    /\ scoreOut = Unused
    /\ data = Unused
    /\ ranked = Unused
    /\ variant = "none"
    /\ devMode = FALSE
    /\ clock = 0
    /\ cache = [k \in Keys |-> NoData]
    /\ lastFetch = [k \in Keys |-> 0]
    /\ req = [r \in Req |-> IdleReq]
    /\ sent = NoResp

\* index.js 104: this.calculateRSI(prices)
RunCalculateRSI ==
    /\ indicators' = [Indicator("calculateRSI", calculateRSI(series, RSI_PERIOD), FALSE)
                        EXCEPT !.reads = calculateRSIReads(series, RSI_PERIOD)]
    /\ UNCHANGED <<series, scoreVars, pipeVars, serviceVars>>

\* index.js 717: calculateSimpleRSI(klineData)
RunCalculateSimpleRSI ==
    /\ indicators' = Indicator("calculateSimpleRSI", calculateSimpleRSI(series), FALSE)
    /\ UNCHANGED <<series, scoreVars, pipeVars, serviceVars>>

\* index.js 105: this.calculateVolatility(prices)
RunCalculateVolatility ==
    /\ indicators' = Indicator("calculateVolatility", calculateVolatility(series),
                               calculateVolatilityDividesByZero(series))
    /\ UNCHANGED <<series, scoreVars, pipeVars, serviceVars>>

\* index.js 106-108: the series taken as the volumes of the candles, its
\* last element as currentVolume; avgVolume is their average, or absent.
RunDetectVolumeSpike ==
    /\ series # <<>>
    /\ \E avgVolume \in {RatUndef, RatNaN, Rat(SumSeq(series), Len(series))} :
         indicators' =
            [Indicator("detectVolumeSpike",
                       Node_detectVolumeSpike(series[Len(series)], avgVolume), FALSE)
               EXCEPT !.avgVolume = avgVolume]
    /\ UNCHANGED <<series, scoreVars, pipeVars, serviceVars>>

\* index.js 114: this.getTrend(prices)
RunGetTrend ==
    /\ indicators' = [Indicator("getTrend", RatUndef, getTrendDividesByZero(series))
                        EXCEPT !.label = getTrend(series)]
    /\ UNCHANGED <<series, scoreVars, pipeVars, serviceVars>>

\* index.js 718: calculateMomentum(klineData)
RunCalculateMomentum ==
    /\ indicators' = Indicator("calculateMomentum", calculateMomentum(series),
                               calculateMomentumDividesByZero(series))
    /\ UNCHANGED <<series, scoreVars, pipeVars, serviceVars>>

IndNext ==
    \/ RunCalculateRSI
    \/ RunCalculateSimpleRSI
    \/ RunCalculateVolatility
    \/ RunDetectVolumeSpike
    \/ RunGetTrend
    \/ RunCalculateMomentum

SpecInd == IndInit /\ [][IndNext]_vars


(***************************************************************************)
(* Vocabulary of the indicator claims.                                     *)
(***************************************************************************)
\* The fraction a is the integer c.
RatIs(a, c) == a.k = "fin" /\ a.n = c * a.d

\* The samples whose changes the RSI function applied last sums up: the
\* first period + 1 samples for calculateRSI, the last 15 for
\* calculateSimpleRSI.
RSIWindow ==
    IF indicators.fn = "calculateRSI"
    THEN SubSeq(series, 1, Min(Len(series), RSI_PERIOD + 1))
    ELSE LastN(series, 15)

NoDecrease(w) == \A i \in 1 .. Len(w) - 1 : w[i + 1] >= w[i]

(***************************************************************************)
(* C18: RSI is exactly 50 for a series of fewer than 14 samples, and       *)
(* exactly 100 for a series of 14 or more samples with no price decrease   *)
(* within the window the function uses.                                    *)
(***************************************************************************)
C18_RSINeutralAndFull ==
    indicators.fn \in {"calculateRSI", "calculateSimpleRSI"}
        => /\ Len(series) < 14 => RatIs(indicators.value, 50)
           /\ (Len(series) >= 14 /\ NoDecrease(RSIWindow))
                 => RatIs(indicators.value, 100)

\* The same for every series but those of exactly 14 samples given to
\* calculateRSI.
C18_RSINeutralAndFullBut14 ==
    (/\ indicators.fn \in {"calculateRSI", "calculateSimpleRSI"}
     /\ ~(indicators.fn = "calculateRSI" /\ Len(series) = RSI_PERIOD))
        => /\ Len(series) < 14 => RatIs(indicators.value, 50)
           /\ (Len(series) >= 14 /\ NoDecrease(RSIWindow))
                 => RatIs(indicators.value, 100)


(***************************************************************************)
(* C19: for every series of length >= period, the length period included,  *)
(* calculateRSI reads only positions inside the series and returns a       *)
(* number from 0 to 100.                                                   *)
(***************************************************************************)
C19_RSIReadsInsideAndBounded ==
    (indicators.fn = "calculateRSI" /\ Len(series) >= RSI_PERIOD)
        => /\ indicators.reads \subseteq 0 .. Len(series) - 1
           /\ indicators.value.k = "fin"
           /\ indicators.value.n >= 0
           /\ indicators.value.n <= 100 * indicators.value.d

\* The same for every series longer than period.
C19_RSIReadsInsideAndBoundedAbovePeriod ==
    (indicators.fn = "calculateRSI" /\ Len(series) > RSI_PERIOD)
        => /\ indicators.reads \subseteq 0 .. Len(series) - 1
           /\ indicators.value.k = "fin"
           /\ indicators.value.n >= 0
           /\ indicators.value.n <= 100 * indicators.value.d


(***************************************************************************)
(* C20: every indicator function (volatility, volume-spike ratio, trend,   *)
(* momentum) returns a defined value for every series, the empty one and   *)
(* those shorter than its window included, and divides by zero in none;    *)
(* volatility is 0 below 2 samples and the spike ratio is 1 when the       *)
(* average volume is zero or absent.                                       *)
(***************************************************************************)
C20_Defined ==
    IF indicators.fn = "getTrend"
    THEN indicators.label \in {"BULLISH", "BEARISH", "NEUTRAL"}
    ELSE indicators.value.k \in {"fin", "sqrt"}

C20_IndicatorsTotal ==
    indicators.fn \in {"calculateVolatility", "detectVolumeSpike", "getTrend",
                       "calculateMomentum"}
        => /\ C20_Defined
           /\ ~indicators.dividedByZero
           /\ (indicators.fn = "calculateVolatility" /\ Len(series) < 2)
                 => RatIs(indicators.value, 0)
           /\ (/\ indicators.fn = "detectVolumeSpike"
               /\ (indicators.avgVolume.k = "undef" \/ RatIs(indicators.avgVolume, 0)))
                 => RatIs(indicators.value, 1)

\* The same for series of positive prices, with trend and momentum taken
\* on at least 10 samples or, momentum only, on fewer than 5.
C20_IndicatorsTotalOnFullWindow ==
    (/\ indicators.fn \in {"calculateVolatility", "detectVolumeSpike", "getTrend",
                           "calculateMomentum"}
     /\ \A i \in 1 .. Len(series) : series[i] > 0
     /\ indicators.fn = "getTrend" => Len(series) >= 10
     /\ indicators.fn = "calculateMomentum" => (Len(series) >= 10 \/ Len(series) < 5))
        => /\ C20_Defined
           /\ ~indicators.dividedByZero
           /\ (indicators.fn = "calculateVolatility" /\ Len(series) < 2)
                 => RatIs(indicators.value, 0)
           /\ (/\ indicators.fn = "detectVolumeSpike"
               /\ (indicators.avgVolume.k = "undef" \/ RatIs(indicators.avgVolume, 0)))
                 => RatIs(indicators.value, 1)


(***************************************************************************)
(* C21: for every series of at least 10 prices, getTrend returns BULLISH   *)
(* iff the mean of the last 5 samples is more than 2% above the mean of    *)
(* the 5 samples before them, BEARISH iff it is more than 2% below, and    *)
(* NEUTRAL otherwise.                                                      *)
(***************************************************************************)
\* The sum of the five samples of series that end at position last.
C21_FiveEndingAt(last) ==
    series[last - 4] + series[last - 3] + series[last - 2] + series[last - 1] + series[last]

C21_TrendOfLastTen ==
    (indicators.fn = "getTrend" /\ Len(series) >= 10)
        => LET recent5 == C21_FiveEndingAt(Len(series))
               before5 == C21_FiveEndingAt(Len(series) - 5)
           IN  /\ indicators.label = "BULLISH" <=> 100 * recent5 > 102 * before5
               /\ indicators.label = "BEARISH" <=> 100 * recent5 < 98 * before5
               /\ indicators.label = "NEUTRAL"
                     <=> (100 * recent5 <= 102 * before5 /\ 100 * recent5 >= 98 * before5)

C21_Witness ==
    /\ indicators.fn = "getTrend"
    /\ Len(series) = 12
    /\ series[1] > series[12]
    /\ indicators.label = "BEARISH"


(***************************************************************************)
(* C22: a request whose upstream ticker fetch ran into its timeout         *)
(* completes with a failure response.                                      *)
(***************************************************************************)
C22_TickerTimeoutFails ==
    [][\A r \in Req :
         (Completes(r) /\ sent'.up = "timeout") => sent'.status >= 400]_vars

\* The same for the two services whose handlers await the ticker fetch
\* themselves.
C22_TickerTimeoutFailsInHandler ==
    [][\A r \in Req :
         (Completes(r) /\ sent'.up = "timeout" /\ variant \in {"simple", "signals"})
            => sent'.status >= 400]_vars


(***************************************************************************)
(* C23: no failure response carries the upstream error body or the         *)
(* upstream error message, whatever the kind of upstream failure (non-2xx  *)
(* status, network error, timeout).                                        *)
(***************************************************************************)
C23_NoUpstreamDetailInFailure ==
    (sent.status >= 400 /\ UpstreamFailed(sent.up)) => sent.details = "none"

\* The same for the timeout and network failures of part_000 alone.
C23_NoUpstreamDetailOnSimpleTimeoutOrNetwork ==
    (/\ sent.status >= 400
     /\ variant = "simple"
     /\ sent.up \in {"timeout", "network"}) => sent.details = "none"


(***************************************************************************)
(* C24: every query kind is served through the cache.  Of two requests for *)
(* the same kind that follow one another inside one TTL window, the second *)
(* causes no upstream ticker fetch when the first was answered with a      *)
(* freshly computed result.  Stated for deployments in which no request    *)
(* can clear the cache, and for a second request that arrives while no     *)
(* other request is in flight.                                             *)
(***************************************************************************)
NoneInFlight == \A q \in Req : req[q].pc \notin {"fetch", "fallback"}

\* The last response sent answered a request for k, which arrived less
\* than a TTL ago, with a result computed from a ticker fetch.
RecomputedInWindow(k) ==
    /\ sent.key = k
    /\ sent.status = 200
    /\ sent.up = "array"
    /\ clock - sent.now < Ttl

C24_OneFetchPerWindow ==
    [][\A r \in Req : \A k \in Keys :
         (/\ Arrives(r)
          /\ ArrivalKey(r) = k
          /\ NoneInFlight
          /\ ~devMode
          /\ RecomputedInWindow(k))
            => AnsweredFromCache(r)]_vars

\* The same for the kinds other than smart-analysis.
C24_OneFetchPerWindowOfCachedKinds ==
    [][\A r \in Req : \A k \in Keys \ {"smart-analysis"} :
         (/\ Arrives(r)
          /\ ArrivalKey(r) = k
          /\ NoneInFlight
          /\ ~devMode
          /\ RecomputedInWindow(k))
            => AnsweredFromCache(r)]_vars


(***************************************************************************)
(* C25: under any interleaving of requests, a key's payload and computedAt *)
(* are written together.  In every step that changes one of them for a     *)
(* key, either one request ends its recompute for that key and both hold   *)
(* what that request wrote, or the entry is removed and both are reset.    *)
(***************************************************************************)
C25_StampOf(r) == IF variant = "nodecache" THEN clock ELSE req[r].now

C25_PayloadAndStampTogether ==
    [][\A k \in Keys :
         (cache'[k] # cache[k] \/ lastFetch'[k] # lastFetch[k])
            => \/ \E r \in Req :
                    /\ Completes(r)
                    /\ req[r].key = k
                    /\ sent'.by = r
                    /\ sent'.status = 200
                    /\ cache'[k] = sent'.data
                    /\ lastFetch'[k] = C25_StampOf(r)
               \/ (cache'[k] = NoData /\ lastFetch'[k] = 0)]_vars

\* A request for a key is in flight while the key holds the entry another
\* request's recompute wrote.
C25_Witness ==
    \E r \in Req :
        /\ req[r].pc \in {"fetch", "fallback"}
        /\ sent.key = req[r].key
        /\ sent.status = 200
        /\ sent.up = "array"
        /\ cache[req[r].key] = sent.data
        /\ lastFetch[req[r].key] # 0


(***************************************************************************)
(* C27: under any interleaving of requests for the same key, the key's     *)
(* computedAt never decreases while the key holds an entry.                *)
(***************************************************************************)
C27_ComputedAtMonotone ==
    [][\A k \in Keys :
         (cache[k].set /\ cache'[k].set) => lastFetch'[k] >= lastFetch[k]]_vars

\* The same for the NodeCache service, where cache.set stamps the entry
\* with the time of the set.
C27_ComputedAtMonotoneInNodeCache ==
    [][\A k \in Keys :
         (variant = "nodecache" /\ cache[k].set /\ cache'[k].set)
            => lastFetch'[k] >= lastFetch[k]]_vars

(***************************************************************************)
(* C26: no pipeline run modifies the upstream ticker records or the order  *)
(* of the upstream collection: after the run the collection holds the same *)
(* records, with the same field values, in the same places.                *)
(***************************************************************************)
C26_InputUntouched == [][data' = data]_vars

\* A pipeline that filters, scores, sorts and slices has returned records
\* in an order other than that of the upstream collection.
C26_Witness ==
    /\ ranked.done
    /\ ranked.by \in {"signals-explosion", "node-smart-analysis"}
    /\ data.isArray
    /\ Len(data.items) = 3
    /\ \E i, j \in 1 .. 3 :
          /\ i < j
          /\ data.items[i].kind = "object"
          /\ data.items[j].kind = "object"
          /\ LET first == IF ranked.by = "signals-explosion" THEN ranked.out
                          ELSE ranked.out[2]
             IN  /\ Len(first) >= 2
                 /\ first[1].symbol = data.items[j].symbol
                 /\ first[2].symbol = data.items[i].symbol


(***************************************************************************)
(* C28: every request to a query endpoint eventually receives exactly one  *)
(* response, on every path.  A request that awaits an upstream fetch is    *)
(* eventually finished, and a response to a request is sent in exactly the *)
(* step that finishes it (a cache hit is answered in the step in which the *)
(* request arrives).                                                       *)
(***************************************************************************)
ResponseSentTo(r) == sent' # sent /\ sent'.by = r

Finishes(r) == req[r].pc # "done" /\ req'[r].pc = "done"

C28_ExactlyOneResponse ==
    /\ \A r \in Req : (req[r].pc \in {"fetch", "fallback"}) ~> (req[r].pc = "done")
    /\ [][\A r \in Req : ResponseSentTo(r) <=> Finishes(r)]_vars

\* Every request slot has been answered, the last one with a failure after
\* a network error of the upstream fetch.
C28_Witness ==
    /\ \A r \in Req : req[r].pc = "done"
    /\ sent.by # 0
    /\ sent.up = "network"
    /\ sent.status >= 400


(***************************************************************************)
(* calculateTokenScore as a function of its arguments: a token as          *)
(* processTokensWithAnalysis builds it (percentChange and volume are the   *)
(* strings toFixed leaves, momentum and rsi are numbers) and the average   *)
(* volume, each drawn around the thresholds of index.js 651-671.           *)
(***************************************************************************)
TokenPercentChanges ==
    {RawNum(20000), RawNum(15000), RawNum(14990), RawNum(10000), RawNum(5000),
     RawNum(4990), RawNum(-3000), RawText, RawInf}

TokenVolumes ==
    {RawNum(600000), RawNum(500000), RawNum(499999), RawNum(200000),
     RawNum(199999), RawText, RawInf}

TokenMomenta ==
    {Rat(6, 1), Rat(5, 1), Rat(1, 2), Rat(0, 1), Rat(-3, 1), RatNaN, RatInf(1),
     RatInf(-1)}

TokenRSIs ==
    {Rat(50, 1), Rat(30, 1), Rat(70, 1), Rat(141, 2), Rat(59, 2), Rat(100, 1),
     Rat(0, 1)}

AvgVolumes ==
    {Rat(0, 1), Rat(100000, 1), Rat(250000, 1), Rat(300000, 1), RatNaN, RatInf(1)}

TokenScoreInputs ==
    {[tok |-> [percentChange |-> p, volume |-> v, momentum |-> m, rsi |-> x],
      avgVolume |-> a] :
        p \in TokenPercentChanges, v \in TokenVolumes, m \in TokenMomenta,
        x \in TokenRSIs, a \in AvgVolumes}

NoTokenScore == [done |-> FALSE, score |-> 0]

TokInit ==
    /\ token \in TokenScoreInputs
    /\ scoreOut = NoTokenScore
    /\ data = Unused
    /\ ranked = Unused
    /\ series = Unused
    /\ indicators = Unused
    /\ variant = "signals"
    /\ devMode = FALSE
    /\ clock = 0
    /\ cache = [k \in Keys |-> NoData]
    /\ lastFetch = [k \in Keys |-> 0]
    /\ req = [r \in Req |-> IdleReq]
    /\ sent = NoResp

\* index.js 734: token.score = calculateTokenScore(token, avgVolume)
RunCalculateTokenScore ==
    /\ ~scoreOut.done
    /\ scoreOut' = [done |-> TRUE,
                    score |-> calculateTokenScore(token.tok, token.avgVolume)]
    /\ UNCHANGED <<token, pipeVars, indVars, serviceVars>>

TokNext == RunCalculateTokenScore

SpecTok == TokInit /\ [][TokNext]_vars

(***************************************************************************)
(* C29: for every token and every average volume, calculateTokenScore      *)
(* returns an integer between 0 and 10 inclusive that equals the sum of    *)
(* its five factor points: gain up to 3, volume up to 2, volume spike up   *)
(* to 2, momentum up to 2, healthy RSI up to 1.                            *)
(***************************************************************************)
\* The points of a staircase: the number of the given thresholds a JavaScript
\* number reaches (none when it is NaN).
C29_Reached(x, thresholds) ==
    IF x.k = "nan" THEN 0
    ELSE IF x.k = "inf" THEN (IF x.v > 0 THEN Cardinality(thresholds) ELSE 0)
    ELSE Cardinality({t \in thresholds : x.v >= t})

C29_FactorPoints(tok, avgVolume) ==
    LET volume == parseFloat(tok.volume)
        doubled == /\ volume.k # "nan"
                   /\ avgVolume.k = "fin"
                   /\ avgVolume.n > 0
                   /\ IF volume.k = "inf" THEN volume.v > 0
                      ELSE volume.v * avgVolume.d > 2 * avgVolume.n
        above(m, c) == \/ m.k = "inf" /\ m.n > 0
                       \/ m.k = "fin" /\ m.n > c * m.d
        healthy(x) == x.k = "fin" /\ x.n >= 30 * x.d /\ x.n <= 70 * x.d
    IN  [gain |-> C29_Reached(parseFloat(tok.percentChange), {5000, 10000, 15000}),
         volume |-> C29_Reached(volume, {200000, 500000}),
         spike |-> IF doubled THEN 2 ELSE 0,
         momentum |-> IF above(tok.momentum, 5) THEN 2
                      ELSE IF above(tok.momentum, 0) THEN 1 ELSE 0,
         rsi |-> IF healthy(tok.rsi) THEN 1 ELSE 0]

C29_ScoreIsSumOfFactors ==
    scoreOut.done =>
        LET f == C29_FactorPoints(token.tok, token.avgVolume)
        IN  /\ scoreOut.score \in 0 .. 10
            /\ f.gain \in 0 .. 3
            /\ f.volume \in 0 .. 2
            /\ f.spike \in 0 .. 2
            /\ f.momentum \in 0 .. 2
            /\ f.rsi \in 0 .. 1
            /\ scoreOut.score = f.gain + f.volume + f.spike + f.momentum + f.rsi

\* A token that earns every factor's maximum has been scored 10: the cap is
\* reached and not exceeded.
C29_Witness ==
    /\ scoreOut.done
    /\ scoreOut.score = 10
    /\ C29_FactorPoints(token.tok, token.avgVolume) =
           [gain |-> 3, volume |-> 2, spike |-> 2, momentum |-> 2, rsi |-> 1]

====
